---- MODULE Spec2Model ----
(***************************************************************************)
(* GeminiVideoGenerator (shared/gemini-video-generator): submission of a   *)
(* video generation job, the polling loop with timeout and cancellation,   *)
(* status normalisation and output materialisation.                        *)
(*                                                                         *)
(* JavaScript runs one continuation at a time, so every action below is    *)
(* the code between two suspension points (await) of one call.  Time is a  *)
(* discrete clock; a provider call stays in flight for 0..MaxLatency       *)
(* ticks, a timer fires 0..MaxTimerLate ticks after its delay elapsed.    *)
(***************************************************************************)
EXTENDS Integers, Sequences, FiniteSets, TLC

\* ---- bounds of the model ------------------------------------------------
MaxCalls == 2          \* call slots on the one generator instance
MaxLatency == 1        \* ticks a provider call (submit, poll, fetch) may take
MaxTimerLate == 1      \* ticks a timer may fire after its delay has elapsed
MaxStart == 1          \* latest time at which a call is started
MaxBytes == 3          \* length of the longest artifact
MaxPollingTime == 3    \* config.maxPollingTime, in ticks
MAX_CACHE_SIZE == 2    \* MAX_CACHE_SIZE of gemini-server (50 there), in entries
CACHE_TTL == 2         \* CACHE_TTL of gemini-server (one hour there), in ticks
MaxCacheTime == 3      \* last tick of the clock in the cache's specification
MaxDetailFetches == 2  \* getCachedOrFetchHolidayDetails calls awaiting Gemini at once
MaxRequests == 2       \* refresh-holidays requests in one run
PollingInterval == 2   \* config.pollingInterval, in ticks

\* ---- constants of the program -------------------------------------------
ProgressCap == 95
ProgressDone == 100

Calls == 1..MaxCalls
\* the longest a call can last: submission, the budget, one more cycle, the fetch
Budget == MaxPollingTime + PollingInterval + MaxTimerLate + 3 * MaxLatency
MaxTime == MaxStart + Budget

PrimaryModel == "A"
FallbackChain == <<"B", "C">>
ApiKey == "K"
Handle == "operations/x"

VARIABLES
    config,       \* retryOnOverload, fallbackModels, outputFormat (model is PrimaryModel)
    calls,        \* the call slots this run uses
    now,          \* Date.now()
    abortController, \* this.abortController: 0 = undefined, else the call that created it
    aborted,      \* the controllers whose signal is aborted
    pc,           \* per call: where its async function is suspended, or how it ended
    entry,        \* per call: "generate" or "pollForCompletion" (the public method invoked)
    onProgress,   \* per call: whether a progress callback was supplied
    issuedAt,     \* per call: when the pending await was started
    startTime,    \* per call: startTime of pollForCompletion
    attempts,     \* per call: attempts of pollForCompletion
    operationName,\* per call: the job handle
    last,         \* per call: the PollingStatus of the latest checkStatus
    lastOk,       \* per call: response.ok of the latest checkStatus
    lastResp,     \* per call: the provider's answer to the latest checkStatus
    answeredAt,   \* per call: when the latest checkStatus was answered
    enteredAt,    \* per call: when pollForCompletion was entered
    artifact,     \* per call: the values the call returned, in order
    error,        \* per call: the messages of the errors the call raised, in order
    subs,         \* per call: the models submitted to generateVideos, in order
    subResps,     \* per call: the provider's answer to each submission
    polls,        \* per call: number of checkStatus calls issued
    fetches,      \* per call: number of artifact fetches issued
    fetched,      \* per call: the bytes the artifact downloads delivered, in order
    cbs,          \* per call: the statuses passed to onProgress, in order
    calledAt,     \* per call: when the public method was invoked
    cycleAt,      \* per call: when the while condition last held
    endedAt,      \* per call: when the call returned or raised
    cancelAt,     \* per call: when cancel() was first called during its loop, -1 = never
    holidayDetailsCache, \* the Map of gemini-server: its entries in insertion order
    detailFetches,\* per cache key: when each call awaiting fetchHolidayDetails began to wait
    lookup,       \* the latest getCachedOrFetchHolidayDetails call: key, how it was served
    adminSecret,  \* process.env.ADMIN_SECRET
    geminiKey,    \* whether process.env.GEMINI_API_KEY is set
    dataFile,     \* data/holidays.json
    backupFile,   \* data/holidays-backup.json
    holidayData,  \* holidayService.holidayData
    rpc,          \* per refresh request: where its handler is suspended
    request,      \* per refresh request: its authorization header and secret parameter
    countryIdx,   \* per refresh request: position in SUPPORTED_COUNTRIES
    database,     \* per refresh request: the countries in its database.countries
    reply,        \* per refresh request: the HTTP status it answered with, 0 = none yet
    initialized,  \* holidayService.initialized
    initPc,       \* where a running initialize() stands after its loadData: "idle" = none running
    serviceCall,  \* the latest finished initialize()/reload(): did it read the file, did it throw
    cpc,          \* the browser's generateVideo call: where it is suspended or how it ended
    cOnProgress,  \* whether that call was given an onProgress callback
    cStartTime,   \* its startTime
    cIssuedAt,    \* when its pending request or timer was issued
    cPolls,       \* number of status requests it has sent
    cAnswers,     \* the answers of the status route it has received, in order
    cProgress,    \* the values passed to onProgress, each with the status it came with
    cError        \* the message of the error it raised, <<>> = none

vars == <<config, calls, now, abortController, aborted, pc, entry, onProgress, issuedAt,
          startTime, attempts, operationName, last, lastOk, artifact, error,
          subs, subResps, polls, fetches, fetched, cbs, calledAt, cycleAt, endedAt,
          cancelAt, lastResp, answeredAt, enteredAt,
          holidayDetailsCache, detailFetches, lookup,
          adminSecret, geminiKey, dataFile, backupFile, holidayData,
          rpc, request, countryIdx, database, reply,
          initialized, initPc, serviceCall,
          cpc, cOnProgress, cStartTime, cIssuedAt, cPolls, cAnswers, cProgress, cError>>

\* the state of the generator instance apart from the clock
generatorVars == <<config, calls, abortController, aborted, pc, entry, onProgress,
                   issuedAt, startTime, attempts, operationName, last, lastOk, artifact,
                   error, subs, subResps, polls, fetches, fetched, cbs, calledAt,
                   cycleAt, endedAt, cancelAt, lastResp, answeredAt, enteredAt>>
\* the module state of gemini-server
cacheVars == <<holidayDetailsCache, detailFetches, lookup>>
\* the state outside the generator instance
\* the environment, the files and the requests of the refresh-holidays route
adminVars == <<adminSecret, geminiKey, dataFile, backupFile, holidayData,
               rpc, request, countryIdx, database, reply>>
\* the holiday service's flag and its calls
serviceVars == <<initialized, initPc, serviceCall>>
\* the generateVideo call of api-client
clientVars == <<cpc, cOnProgress, cStartTime, cIssuedAt, cPolls, cAnswers, cProgress, cError>>
serverVars == <<cacheVars, adminVars, serviceVars, clientVars>>

NoStatus == [status |-> "none"]

Min(a, b) == IF a < b THEN a ELSE b

\* ---- status normalisation ------------------------------------------------
\* A provider answer to GET operation: ok is response.ok; err is "absent" (no
\* error field), "nomsg" (error without message) or a message; done is
\* operation.done; uri1/uri2 are the video uri at the REST path and at the
\* SDK path ("" = missing or empty).
OverloadText == "code 14: model overloaded"
ErrorTexts == {"absent", "nomsg", OverloadText}
RestUri == "https://v/rest"
SdkUri == "https://v/sdk"
OkResponses ==
    \* a finished operation: any combination of error and video uris
    [ok : {TRUE}, err : ErrorTexts, done : {TRUE}, uri1 : {"", RestUri}, uri2 : {"", SdkUri}]
    \* a running operation: with or without an error, no video yet
    \cup [ok : {TRUE}, err : ErrorTexts, done : {FALSE}, uri1 : {""}, uri2 : {""}]
    \* a running operation that already names a video
    \cup {[ok |-> TRUE, err |-> "absent", done |-> FALSE, uri1 |-> RestUri, uri2 |-> ""]}
HttpError == [ok |-> FALSE, err |-> "absent", done |-> FALSE, uri1 |-> "", uri2 |-> ""]
Responses == OkResponses \cup {HttpError}
\* before the first answer
NoResponse == [ok |-> TRUE, err |-> "absent", done |-> FALSE, uri1 |-> "", uri2 |-> ""]

Authenticated(uri) == uri \o "&key=" \o ApiKey

\* variant: the error branch without the 'Generation failed' default
CheckStatus_NoErrorDefault(resp) ==
    IF ~resp.ok THEN [status |-> "failed"]
    ELSE IF resp.err # "absent"
        THEN [status |-> "failed", error |-> IF resp.err = "nomsg" THEN "" ELSE resp.err]
    ELSE IF resp.done /\ resp.uri1 # ""
        THEN [status |-> "succeeded", output |-> Authenticated(resp.uri1)]
    ELSE IF resp.done /\ resp.uri2 # ""
        THEN [status |-> "succeeded", output |-> Authenticated(resp.uri2)]
    ELSE IF resp.done
        THEN [status |-> "failed", error |-> "No video URL in response"]
    ELSE [status |-> "processing"]

\* variant: without the branch for a finished operation that names no video
CheckStatus_NoMalformedBranch(resp) ==
    IF ~resp.ok THEN [status |-> "failed"]
    ELSE IF resp.err # "absent"
        THEN [status |-> "failed",
              error |-> IF resp.err = "nomsg" THEN "Generation failed" ELSE resp.err]
    ELSE IF resp.done /\ resp.uri1 # ""
        THEN [status |-> "succeeded", output |-> Authenticated(resp.uri1)]
    ELSE IF resp.done /\ resp.uri2 # ""
        THEN [status |-> "succeeded", output |-> Authenticated(resp.uri2)]
    ELSE [status |-> "processing"]

\* variant: the video uris are probed before the error field
CheckStatus_OutputFirst(resp) ==
    IF ~resp.ok THEN [status |-> "failed"]
    ELSE IF resp.done /\ resp.uri1 # ""
        THEN [status |-> "succeeded", output |-> Authenticated(resp.uri1)]
    ELSE IF resp.done /\ resp.uri2 # ""
        THEN [status |-> "succeeded", output |-> Authenticated(resp.uri2)]
    ELSE IF resp.err # "absent"
        THEN [status |-> "failed",
              error |-> IF resp.err = "nomsg" THEN "Generation failed" ELSE resp.err]
    ELSE IF resp.done
        THEN [status |-> "failed", error |-> "No video URL in response"]
    ELSE [status |-> "processing"]

\* variant: the SDK path is probed before the REST path
CheckStatus_SdkFirst(resp) ==
    IF ~resp.ok THEN [status |-> "failed"]
    ELSE IF resp.err # "absent"
        THEN [status |-> "failed",
              error |-> IF resp.err = "nomsg" THEN "Generation failed" ELSE resp.err]
    ELSE IF resp.done /\ resp.uri2 # ""
        THEN [status |-> "succeeded", output |-> Authenticated(resp.uri2)]
    ELSE IF resp.done /\ resp.uri1 # ""
        THEN [status |-> "succeeded", output |-> Authenticated(resp.uri1)]
    ELSE IF resp.done
        THEN [status |-> "failed", error |-> "No video URL in response"]
    ELSE [status |-> "processing"]

CheckStatus(resp) ==
    IF ~resp.ok THEN [status |-> "failed"]
    ELSE IF resp.err # "absent"
        THEN [status |-> "failed",
              error |-> IF resp.err = "nomsg" THEN "Generation failed" ELSE resp.err]
    ELSE IF resp.done /\ resp.uri1 # ""
        THEN [status |-> "succeeded", output |-> Authenticated(resp.uri1)]
    ELSE IF resp.done /\ resp.uri2 # ""
        THEN [status |-> "succeeded", output |-> Authenticated(resp.uri2)]
    ELSE IF resp.done
        THEN [status |-> "failed", error |-> "No video URL in response"]
    ELSE [status |-> "processing"]

Has(s, f) == f \in DOMAIN s
Truthy(s, f) == Has(s, f) /\ s[f] # ""

\* ---- the polling loop ----------------------------------------------------
\* variant: the estimate without its cap
Progress_Uncapped(elapsed) == (elapsed * 100) \div MaxPollingTime

\* variant: Math.ceil for Math.floor
Progress_RoundUp(elapsed) ==
    Min(ProgressCap, ((elapsed * 100) + MaxPollingTime - 1) \div MaxPollingTime)

Progress(elapsed) == Min(ProgressCap, (elapsed * 100) \div MaxPollingTime)

WithProgress(s, p) == [progress |-> p] @@ s

IsSuccess(s) == s.status = "succeeded" /\ Truthy(s, "output")
\* variant: only 'canceled' ends the loop
IsFailure_OnlyCanceled(s) == s.status = "canceled"

IsFailure(s) == s.status = "failed" \/ s.status = "canceled"
\* variant: the fixed text whatever the status carries
FailureText_AlwaysFixed(s) == "Video generation failed"

FailureText(s) == IF Truthy(s, "error") THEN s.error ELSE "Video generation failed"

\* variant: without the second callback at success
Callbacks_NoFinal(s, elapsed) == <<WithProgress(s, Progress(elapsed))>>

\* variant: a failed or canceled status is raised before it is reported
Callbacks_SkipFailed(s, elapsed) ==
    IF s.status \in {"failed", "canceled"} THEN <<>>
    ELSE <<WithProgress(s, Progress(elapsed))>>
            \o (IF IsSuccess(s) THEN <<WithProgress(s, ProgressDone)>> ELSE <<>>)

\* the callbacks onProgress receives for one poll
Callbacks(s, elapsed) ==
    <<WithProgress(s, Progress(elapsed))>>
        \o (IF IsSuccess(s) THEN <<WithProgress(s, ProgressDone)>> ELSE <<>>)

\* variant: the while condition with <= for <
LoopTop_Inclusive(elapsed, isAborted, att) ==
    IF ~(elapsed <= MaxPollingTime) THEN "timedout"
    ELSE IF isAborted THEN "cancelled"
    ELSE IF att > 0 THEN "waiting"
    ELSE "polling"

\* variant: a while loop without the time condition
LoopTop_NoTimeout(elapsed, isAborted, att) ==
    IF isAborted THEN "cancelled"
    ELSE IF att > 0 THEN "waiting"
    ELSE "polling"

\* top of the while loop: condition, cancellation check, wait unless first
LoopTop(elapsed, isAborted, att) ==
    IF ~(elapsed < MaxPollingTime) THEN "timedout"
    ELSE IF isAborted THEN "cancelled"
    ELSE IF att > 0 THEN "waiting"
    ELSE "polling"

TimeoutText == "Video generation timed out"
CancelText == "Video generation cancelled"
LoopError(p) == IF p = "timedout" THEN TimeoutText ELSE CancelText

Ended(c) == pc[c] \in {"returned", "failed", "cancelled", "timedout"}
InLoop(c) == pc[c] \in {"polling", "waiting"}
Pending(c) == pc[c] \in {"submitting", "polling", "waiting", "fetching"}

\* ---- submission ----------------------------------------------------------
\* what generateVideos can answer: an operation with a name, an operation
\* without one ("" = empty or undefined), or a rejection
SubmitAnswers == {[accepted |-> TRUE, name |-> Handle],
                  [accepted |-> TRUE, name |-> ""],
                  [accepted |-> FALSE, error |-> OverloadText],
                  [accepted |-> FALSE, error |-> "invalid argument"]}

\* variant: startGeneration without the check of operation.name
StartGeneration_NoNameCheck(ans) ==
    IF ~ans.accepted THEN [ok |-> FALSE, error |-> ans.error]
    ELSE [ok |-> TRUE, name |-> ans.name]

\* what startGeneration does with the provider's answer
StartGeneration(ans) ==
    IF ~ans.accepted THEN [ok |-> FALSE, error |-> ans.error]
    ELSE IF ans.name = "" THEN [ok |-> FALSE, error |-> "No operation name returned from Gemini"]
    ELSE [ok |-> TRUE, name |-> ans.name]

\* ---- initial states ------------------------------------------------------
Configs == [retryOnOverload : BOOLEAN,
            fallbackModels : {FallbackChain},
            outputFormat : {"url", "base64", "blob"}]

\* ---- the holiday-details cache of gemini-server ------------------------------
\* cache keys `${country}::${holidayName}`: those the holiday service knows
\* (pre-generated data) and those only Gemini can describe
ServiceKeys == {"USA::Halloween", "USA::Thanksgiving", "Chile::Fiestas Patrias"}
RemoteKeys == {"Peru::Inti Raymi"}
HolidayKeys == ServiceKeys \cup RemoteKeys
\* oldestKey = null
NoKey == ""

\* Map.get / Map.has: the position of key k in the entries, 0 when absent
CacheIndex(cache, k) ==
    IF \E i \in DOMAIN cache : cache[i].key = k
        THEN CHOOSE i \in DOMAIN cache : cache[i].key = k
    ELSE 0

\* Map.delete
CacheDelete(cache, k) == SelectSeq(cache, LAMBDA e : e.key # k)

\* Map.set: a new key goes last, an existing key keeps its position
CacheSet(cache, k, data, t) ==
    LET i == CacheIndex(cache, k)
        e == [key |-> k, data |-> data, timestamp |-> t]
    IN IF i = 0 THEN Append(cache, e) ELSE [cache EXCEPT ![i] = e]

\* the for loop of evictOldestCacheEntry from entry i on: the key to delete
RECURSIVE ScanOldest(_, _, _, _)
ScanOldest(entries, i, oldestKey, oldestTime) ==
    IF i > Len(entries) THEN oldestKey
    ELSE IF entries[i].timestamp < oldestTime
        THEN ScanOldest(entries, i + 1, entries[i].key, entries[i].timestamp)
    ELSE ScanOldest(entries, i + 1, oldestKey, oldestTime)

\* evictOldestCacheEntry at time t
EvictOldestCacheEntry(cache, t) ==
    IF Len(cache) < MAX_CACHE_SIZE THEN cache
    ELSE LET oldestKey == ScanOldest(cache, 1, NoKey, t)
         IN IF oldestKey # NoKey THEN CacheDelete(cache, oldestKey) ELSE cache

\* evict, then store with the current time
CacheStore(cache, k, data, t) == CacheSet(EvictOldestCacheEntry(cache, t), k, data, t)

NoLookup == [key |-> NoKey, served |-> "none"]

CacheInit ==
    /\ holidayDetailsCache = <<>>
    /\ detailFetches = [k \in HolidayKeys |-> <<>>]
    /\ lookup = NoLookup

\* ---- the refresh-holidays route: environment, files, requests ----------------
Requests == 1..MaxRequests
SUPPORTED_COUNTRIES == <<"USA", "Chile">>

\* A string is the sequence of its pieces; null (a missing header, parameter
\* or environment variable) is not a string.
Null == <<"(null)">>
Empty == <<>>
Bearer == "Bearer "
Secret == <<"s3cret">>
\* the authorization header and the ?secret= parameter of a request: neither,
\* the parameter alone, the header alone (with or without 'Bearer ', or with
\* it in the wrong place), an empty or a wrong header next to a parameter
RequestInputs ==
    {[header |-> Null, secret |-> Null],
     [header |-> Null, secret |-> <<"s3cret">>],
     [header |-> Null, secret |-> <<"guess">>],
     [header |-> <<Bearer, "s3cret">>, secret |-> Null],
     [header |-> <<"s3cret">>, secret |-> Null],
     [header |-> <<"s3cret", Bearer>>, secret |-> Null],
     [header |-> <<Bearer>>, secret |-> <<"s3cret">>],
     [header |-> <<Bearer>>, secret |-> <<"guess">>],
     [header |-> <<Bearer, "guess">>, secret |-> <<"s3cret">>]}
NoRequest == [header |-> Null, secret |-> Null]

\* files and the service's data: nothing, or the database some run wrote
\* (run 0 is the generate-holidays script), or the remains of a failed write
Absent == [kind |-> "absent"]
Db(r, countries) == [kind |-> "db", by |-> r, countries |-> countries]
Partial(r) == [kind |-> "partial", by |-> r]
Shipped == Db(0, {"USA", "Chile"})

\* HolidayService.loadData on a file: the parsed data, null without a file
LoadData(file) == IF file.kind = "db" THEN file ELSE Absent

\* loadData throws on a file that cannot be read or parsed
LoadThrows(file) == file.kind = "partial"

\* the record of a finished call of the service
NoCall == [op |-> "none", read |-> FALSE, threw |-> FALSE]
Initialized(read) == [op |-> "initialize", read |-> read, threw |-> FALSE]
Reloaded(file) == [op |-> "reload", read |-> file # Absent, threw |-> LoadThrows(file)]

\* no refresh request yet; the service loaded the data file at module load
RequestsInit ==
    /\ backupFile = Absent
    /\ holidayData = LoadData(dataFile)
    /\ initialized = TRUE
    /\ initPc = "idle"
    /\ serviceCall = Initialized(dataFile # Absent)
    /\ rpc = [r \in Requests |-> "idle"]
    /\ request = [r \in Requests |-> NoRequest]
    /\ countryIdx = [r \in Requests |-> 0]
    /\ database = [r \in Requests |-> {}]
    /\ reply = [r \in Requests |-> 0]

\* a deployment with both keys configured and the shipped data file
AdminInit ==
    /\ adminSecret = Secret
    /\ geminiKey = TRUE
    /\ dataFile = Shipped
    /\ RequestsInit

\* the generator instance after construction
InitGenerator ==
    /\ config \in Configs
    /\ now = 0
    /\ abortController = 0
    /\ aborted = {}
    /\ pc = [c \in Calls |-> "idle"]
    /\ entry = [c \in Calls |-> "none"]
    /\ onProgress = [c \in Calls |-> FALSE]
    /\ issuedAt = [c \in Calls |-> 0]
    /\ startTime = [c \in Calls |-> 0]
    /\ attempts = [c \in Calls |-> 0]
    /\ operationName = [c \in Calls |-> ""]
    /\ last = [c \in Calls |-> NoStatus]
    /\ lastOk = [c \in Calls |-> TRUE]
    /\ lastResp = [c \in Calls |-> NoResponse]
    /\ answeredAt = [c \in Calls |-> 0]
    /\ enteredAt = [c \in Calls |-> 0]
    /\ artifact = [c \in Calls |-> <<>>]
    /\ error = [c \in Calls |-> <<>>]
    /\ subs = [c \in Calls |-> <<>>]
    /\ subResps = [c \in Calls |-> <<>>]
    /\ polls = [c \in Calls |-> 0]
    /\ fetches = [c \in Calls |-> 0]
    /\ fetched = [c \in Calls |-> <<>>]
    /\ cbs = [c \in Calls |-> <<>>]
    /\ calledAt = [c \in Calls |-> 0]
    /\ cycleAt = [c \in Calls |-> 0]
    /\ endedAt = [c \in Calls |-> 0]
    /\ cancelAt = [c \in Calls |-> -1]

\* no generateVideo call in the browser yet
ClientInit ==
    /\ cpc = "idle"
    /\ cOnProgress = FALSE
    /\ cStartTime = 0
    /\ cIssuedAt = 0
    /\ cPolls = 0
    /\ cAnswers = <<>>
    /\ cProgress = <<>>
    /\ cError = <<>>

InitCommon == InitGenerator /\ CacheInit /\ AdminInit /\ ClientInit

\* one generation call on the instance
Init == InitCommon /\ calls = {1}

\* ---- actions ---------------------------------------------------------------
\* variant: under generate the budget runs from the start of the submission
EnterLoop_FromSubmission(c, name) ==
    LET p == LoopTop(0, FALSE, 0) IN
    /\ startTime' = [startTime EXCEPT ![c] = IF pc[c] = "submitting" THEN calledAt[c] ELSE now]
    /\ enteredAt' = [enteredAt EXCEPT ![c] = now]
    /\ abortController' = c
    /\ attempts' = [attempts EXCEPT ![c] = 0]
    /\ operationName' = [operationName EXCEPT ![c] = name]
    /\ pc' = [pc EXCEPT ![c] = p]
    /\ IF p = "polling"
          THEN /\ polls' = [polls EXCEPT ![c] = @ + 1]
               /\ issuedAt' = [issuedAt EXCEPT ![c] = now]
               /\ cycleAt' = [cycleAt EXCEPT ![c] = now]
               /\ UNCHANGED <<error, endedAt>>
          ELSE /\ error' = [error EXCEPT ![c] = Append(@, LoopError(p))]
               /\ endedAt' = [endedAt EXCEPT ![c] = now]
               /\ UNCHANGED <<polls, issuedAt, cycleAt>>

\* variant: a controller the instance already holds is kept
EnterLoop_KeepController(c, name) ==
    LET ctrl == IF abortController = 0 THEN c ELSE abortController
        p == LoopTop(0, ctrl \in aborted, 0)
    IN
    /\ startTime' = [startTime EXCEPT ![c] = now]
    /\ enteredAt' = [enteredAt EXCEPT ![c] = now]
    /\ abortController' = ctrl
    /\ attempts' = [attempts EXCEPT ![c] = 0]
    /\ operationName' = [operationName EXCEPT ![c] = name]
    /\ pc' = [pc EXCEPT ![c] = p]
    /\ IF p = "polling"
          THEN /\ polls' = [polls EXCEPT ![c] = @ + 1]
               /\ issuedAt' = [issuedAt EXCEPT ![c] = now]
               /\ cycleAt' = [cycleAt EXCEPT ![c] = now]
               /\ UNCHANGED <<error, endedAt>>
          ELSE /\ error' = [error EXCEPT ![c] = Append(@, LoopError(p))]
               /\ endedAt' = [endedAt EXCEPT ![c] = now]
               /\ UNCHANGED <<polls, issuedAt, cycleAt>>

\* pollForCompletion from its first line to its first await: the controller
\* is replaced, the first cycle does not wait and issues the first poll
EnterLoop(c, name) ==
    LET p == LoopTop(0, FALSE, 0) IN
    /\ startTime' = [startTime EXCEPT ![c] = now]
    /\ enteredAt' = [enteredAt EXCEPT ![c] = now]
    /\ abortController' = c
    /\ attempts' = [attempts EXCEPT ![c] = 0]
    /\ operationName' = [operationName EXCEPT ![c] = name]
    /\ pc' = [pc EXCEPT ![c] = p]
    /\ IF p = "polling"
          THEN /\ polls' = [polls EXCEPT ![c] = @ + 1]
               /\ issuedAt' = [issuedAt EXCEPT ![c] = now]
               /\ cycleAt' = [cycleAt EXCEPT ![c] = now]
               /\ UNCHANGED <<error, endedAt>>
          ELSE /\ error' = [error EXCEPT ![c] = Append(@, LoopError(p))]
               /\ endedAt' = [endedAt EXCEPT ![c] = now]
               /\ UNCHANGED <<polls, issuedAt, cycleAt>>

\* generate(input, onProgress): startGeneration submits to config.model
Generate(c, cb) ==
    /\ c \in calls /\ pc[c] = "idle" /\ now <= MaxStart
    /\ pc' = [pc EXCEPT ![c] = "submitting"]
    /\ entry' = [entry EXCEPT ![c] = "generate"]
    /\ onProgress' = [onProgress EXCEPT ![c] = cb]
    /\ subs' = [subs EXCEPT ![c] = Append(@, PrimaryModel)]
    /\ issuedAt' = [issuedAt EXCEPT ![c] = now]
    /\ calledAt' = [calledAt EXCEPT ![c] = now]
    /\ UNCHANGED <<config, calls, now, abortController, aborted, startTime, attempts,
                   operationName, last, lastOk, artifact, error, subResps, polls,
                   fetches, cbs, cycleAt, endedAt, cancelAt,
                   fetched, lastResp, answeredAt, enteredAt>>
    /\ UNCHANGED serverVars

\* variant: an overload answer is followed by a submission to the next model
\* of the chain, whatever retryOnOverload says
SubmitReturn_AlwaysFallback(c, ans) ==
    LET r == StartGeneration(ans)
        chain == <<PrimaryModel>> \o config.fallbackModels
    IN
    /\ c \in calls /\ pc[c] = "submitting"
    /\ subResps' = [subResps EXCEPT ![c] = Append(@, ans)]
    /\ IF r.ok
          THEN EnterLoop(c, r.name) /\ UNCHANGED subs
       ELSE IF r.error = OverloadText /\ Len(subs[c]) < Len(chain)
          THEN /\ subs' = [subs EXCEPT ![c] = Append(@, chain[Len(@) + 1])]
               /\ issuedAt' = [issuedAt EXCEPT ![c] = now]
               /\ UNCHANGED <<pc, error, endedAt, abortController, startTime, attempts,
                              operationName, polls, cycleAt, enteredAt>>
       ELSE /\ pc' = [pc EXCEPT ![c] = "failed"]
            /\ error' = [error EXCEPT ![c] = Append(@, r.error)]
            /\ endedAt' = [endedAt EXCEPT ![c] = now]
            /\ UNCHANGED <<abortController, startTime, attempts, operationName,
                           polls, issuedAt, cycleAt, subs, enteredAt>>
    /\ UNCHANGED <<config, calls, now, aborted, entry, onProgress, last, lastOk,
                   artifact, fetches, cbs, calledAt, cancelAt,
                   fetched, lastResp, answeredAt>>
    /\ UNCHANGED serverVars

\* generateVideos answers: startGeneration returns the name or rethrows;
\* generate then enters pollForCompletion
SubmitReturn(c, ans) ==
    LET r == StartGeneration(ans) IN
    /\ c \in calls /\ pc[c] = "submitting"
    /\ subResps' = [subResps EXCEPT ![c] = Append(@, ans)]
    /\ IF r.ok
          THEN EnterLoop(c, r.name)
          ELSE /\ pc' = [pc EXCEPT ![c] = "failed"]
               /\ error' = [error EXCEPT ![c] = Append(@, r.error)]
               /\ endedAt' = [endedAt EXCEPT ![c] = now]
               /\ UNCHANGED <<abortController, startTime, attempts, operationName,
                              polls, issuedAt, cycleAt, enteredAt>>
    /\ UNCHANGED <<config, calls, now, aborted, entry, onProgress, last, lastOk,
                   artifact, subs, fetches, cbs, calledAt, cancelAt,
                   fetched, lastResp, answeredAt>>
    /\ UNCHANGED serverVars

\* pollForCompletion(operationName, onProgress) called with a handle
PollForCompletion(c, cb) ==
    /\ c \in calls /\ pc[c] = "idle" /\ now <= MaxStart
    /\ entry' = [entry EXCEPT ![c] = "pollForCompletion"]
    /\ onProgress' = [onProgress EXCEPT ![c] = cb]
    /\ calledAt' = [calledAt EXCEPT ![c] = now]
    /\ EnterLoop(c, Handle)
    /\ UNCHANGED <<config, calls, now, aborted, last, lastOk, artifact, subs,
                   subResps, fetches, cbs, cancelAt,
                   fetched, lastResp, answeredAt>>
    /\ UNCHANGED serverVars

\* variant: the download is started whatever the output format
ProcessOutput_AlwaysFetch(c, output) ==
    /\ pc' = [pc EXCEPT ![c] = "fetching"]
    /\ fetches' = [fetches EXCEPT ![c] = @ + 1]
    /\ issuedAt' = [issuedAt EXCEPT ![c] = now]
    /\ UNCHANGED <<artifact, endedAt>>

\* processOutput on a URL: pass through for 'url', else fetch it
ProcessOutput(c, output) ==
    IF config.outputFormat = "url"
       THEN /\ pc' = [pc EXCEPT ![c] = "returned"]
            /\ artifact' = [artifact EXCEPT ![c] = Append(@, output)]
            /\ endedAt' = [endedAt EXCEPT ![c] = now]
            /\ UNCHANGED <<fetches, issuedAt>>
       ELSE /\ pc' = [pc EXCEPT ![c] = "fetching"]
            /\ fetches' = [fetches EXCEPT ![c] = @ + 1]
            /\ issuedAt' = [issuedAt EXCEPT ![c] = now]
            /\ UNCHANGED <<artifact, endedAt>>

\* checkStatus resolves: progress callback, completion, failure, next cycle
PollReturn(c, resp) ==
    LET s == CheckStatus(resp)
        elapsed == now - startTime[c]
        p == LoopTop(elapsed, abortController \in aborted, attempts[c] + 1)
    IN
    /\ c \in calls /\ pc[c] = "polling"
    /\ last' = [last EXCEPT ![c] = s]
    /\ lastOk' = [lastOk EXCEPT ![c] = resp.ok]
    /\ lastResp' = [lastResp EXCEPT ![c] = resp]
    /\ answeredAt' = [answeredAt EXCEPT ![c] = now]
    /\ cbs' = [cbs EXCEPT ![c] = IF onProgress[c] THEN @ \o Callbacks(s, elapsed) ELSE @]
    /\ IF IsSuccess(s)
          THEN /\ ProcessOutput(c, s.output)
               /\ UNCHANGED <<error, attempts, cycleAt>>
       ELSE IF IsFailure(s)
          THEN /\ pc' = [pc EXCEPT ![c] = "failed"]
               /\ error' = [error EXCEPT ![c] = Append(@, FailureText(s))]
               /\ endedAt' = [endedAt EXCEPT ![c] = now]
               /\ UNCHANGED <<artifact, fetches, issuedAt, attempts, cycleAt>>
       ELSE /\ attempts' = [attempts EXCEPT ![c] = @ + 1]
            /\ pc' = [pc EXCEPT ![c] = p]
            /\ IF p = "waiting"
                  THEN /\ issuedAt' = [issuedAt EXCEPT ![c] = now]
                       /\ cycleAt' = [cycleAt EXCEPT ![c] = now]
                       /\ UNCHANGED <<error, endedAt>>
                  ELSE /\ error' = [error EXCEPT ![c] = Append(@, LoopError(p))]
                       /\ endedAt' = [endedAt EXCEPT ![c] = now]
                       /\ UNCHANGED <<issuedAt, cycleAt>>
            /\ UNCHANGED <<artifact, fetches>>
    /\ UNCHANGED <<config, calls, now, abortController, aborted, entry, onProgress,
                   startTime, operationName, subs, subResps, polls, calledAt, cancelAt,
                   fetched, enteredAt>>
    /\ UNCHANGED serverVars

\* variant: the cycle goes on to checkStatus without waiting for the timer
Wake_NoDelay(c) ==
    /\ c \in calls /\ pc[c] = "waiting"
    /\ pc' = [pc EXCEPT ![c] = "polling"]
    /\ polls' = [polls EXCEPT ![c] = @ + 1]
    /\ issuedAt' = [issuedAt EXCEPT ![c] = now]
    /\ UNCHANGED <<config, calls, now, abortController, aborted, entry, onProgress,
                   startTime, attempts, operationName, last, lastOk, artifact, error,
                   subs, subResps, fetches, cbs, calledAt, cycleAt, endedAt, cancelAt,
                   fetched, lastResp, answeredAt, enteredAt>>
    /\ UNCHANGED serverVars

\* the inter-poll timer fires: the cycle goes on to checkStatus
Wake(c) ==
    /\ c \in calls /\ pc[c] = "waiting"
    /\ now >= issuedAt[c] + PollingInterval
    /\ pc' = [pc EXCEPT ![c] = "polling"]
    /\ polls' = [polls EXCEPT ![c] = @ + 1]
    /\ issuedAt' = [issuedAt EXCEPT ![c] = now]
    /\ UNCHANGED <<config, calls, now, abortController, aborted, entry, onProgress,
                   startTime, attempts, operationName, last, lastOk, artifact, error,
                   subs, subResps, fetches, cbs, calledAt, cycleAt, endedAt, cancelAt,
                   fetched, lastResp, answeredAt, enteredAt>>
    /\ UNCHANGED serverVars

\* ---- output materialisation --------------------------------------------------
\* what the download of the artifact can answer: the bytes, or a non-OK status
ByteSamples == {0, 77, 255}
ByteSeqs == UNION {[1..n -> ByteSamples] : n \in 0..MaxBytes}
StatusTexts == {"Not Found", "Service Unavailable"}
FetchAnswers == {[ok |-> TRUE, bytes |-> b] : b \in ByteSeqs}
                    \cup {[ok |-> FALSE, statusText |-> t] : t \in StatusTexts}

\* the alphabet of btoa
B64Alphabet ==
    <<"A", "B", "C", "D", "E", "F", "G", "H", "I", "J", "K", "L", "M", "N", "O", "P",
      "Q", "R", "S", "T", "U", "V", "W", "X", "Y", "Z", "a", "b", "c", "d", "e", "f",
      "g", "h", "i", "j", "k", "l", "m", "n", "o", "p", "q", "r", "s", "t", "u", "v",
      "w", "x", "y", "z", "0", "1", "2", "3", "4", "5", "6", "7", "8", "9", "+", "/">>
B64Char(n) == B64Alphabet[n + 1]

\* Array.from(uint8Array).map(String.fromCharCode).join(''): one code unit per byte
BinaryString(bytes) == bytes

\* variant: btoa that drops the bytes of an incomplete last group
RECURSIVE Btoa_DropTail(_)
Btoa_DropTail(str) ==
    IF Len(str) < 3 THEN <<>>
    ELSE <<B64Char(str[1] \div 4),
           B64Char((str[1] % 4) * 16 + str[2] \div 16),
           B64Char((str[2] % 16) * 4 + str[3] \div 64),
           B64Char(str[3] % 64)>> \o Btoa_DropTail(SubSeq(str, 4, Len(str)))

\* btoa: three code units to four characters, '=' padding on the last group
RECURSIVE Btoa(_)
Btoa(str) ==
    IF Len(str) = 0 THEN <<>>
    ELSE IF Len(str) = 1
        THEN <<B64Char(str[1] \div 4), B64Char((str[1] % 4) * 16), "=", "=">>
    ELSE IF Len(str) = 2
        THEN <<B64Char(str[1] \div 4),
               B64Char((str[1] % 4) * 16 + str[2] \div 16),
               B64Char((str[2] % 16) * 4), "=">>
    ELSE <<B64Char(str[1] \div 4),
           B64Char((str[1] % 4) * 16 + str[2] \div 16),
           B64Char((str[2] % 16) * 4 + str[3] \div 64),
           B64Char(str[3] % 64)>> \o Btoa(SubSeq(str, 4, Len(str)))

\* the characters of 'data:video/mp4;base64,'
DataUriPrefix == <<"d", "a", "t", "a", ":", "v", "i", "d", "e", "o", "/", "m", "p", "4",
                   ";", "b", "a", "s", "e", "6", "4", ",">>

\* the value processOutput returns once the download has answered OK:
\* response.blob() for 'blob', the data URI of the bytes for 'base64'
Materialize(format, bytes) ==
    IF format = "blob" THEN [blob |-> bytes]
    ELSE DataUriPrefix \o Btoa(BinaryString(bytes))

\* variant: a failed download raises and still falls through to the return
FetchReturn_FallThrough(c, ans) ==
    /\ c \in calls /\ pc[c] = "fetching"
    /\ IF ans.ok
          THEN /\ pc' = [pc EXCEPT ![c] = "returned"]
               /\ artifact' = [artifact EXCEPT ![c] =
                                  Append(@, Materialize(config.outputFormat, ans.bytes))]
               /\ fetched' = [fetched EXCEPT ![c] = Append(@, ans.bytes)]
               /\ UNCHANGED error
          ELSE /\ pc' = [pc EXCEPT ![c] = "failed"]
               /\ error' = [error EXCEPT ![c] =
                               Append(@, "Failed to download video: " \o ans.statusText)]
               /\ artifact' = [artifact EXCEPT ![c] = Append(@, last[c].output)]
               /\ UNCHANGED fetched
    /\ endedAt' = [endedAt EXCEPT ![c] = now]
    /\ UNCHANGED <<config, calls, now, abortController, aborted, entry, onProgress,
                   issuedAt, startTime, attempts, operationName, last, lastOk, subs,
                   subResps, polls, fetches, cbs, calledAt, cycleAt, cancelAt,
                   lastResp, answeredAt, enteredAt>>
    /\ UNCHANGED serverVars

\* variant: a failed download sends the call back into the polling loop
FetchReturn_Retry(c, ans) ==
    /\ c \in calls /\ pc[c] = "fetching"
    /\ IF ans.ok
          THEN /\ pc' = [pc EXCEPT ![c] = "returned"]
               /\ artifact' = [artifact EXCEPT ![c] =
                                  Append(@, Materialize(config.outputFormat, ans.bytes))]
               /\ fetched' = [fetched EXCEPT ![c] = Append(@, ans.bytes)]
               /\ endedAt' = [endedAt EXCEPT ![c] = now]
               /\ UNCHANGED <<issuedAt, cycleAt>>
          ELSE /\ pc' = [pc EXCEPT ![c] = "waiting"]
               /\ issuedAt' = [issuedAt EXCEPT ![c] = now]
               /\ cycleAt' = [cycleAt EXCEPT ![c] = now]
               /\ UNCHANGED <<artifact, fetched, endedAt>>
    /\ UNCHANGED <<config, calls, now, abortController, aborted, entry, onProgress,
                   startTime, attempts, operationName, last, lastOk, subs, error,
                   subResps, polls, fetches, cbs, calledAt, cancelAt,
                   lastResp, answeredAt, enteredAt>>
    /\ UNCHANGED serverVars

\* the artifact download answers
FetchReturn(c, ans) ==
    /\ c \in calls /\ pc[c] = "fetching"
    /\ IF ans.ok
          THEN /\ pc' = [pc EXCEPT ![c] = "returned"]
               /\ artifact' = [artifact EXCEPT ![c] =
                                  Append(@, Materialize(config.outputFormat, ans.bytes))]
               /\ fetched' = [fetched EXCEPT ![c] = Append(@, ans.bytes)]
               /\ UNCHANGED error
          ELSE /\ pc' = [pc EXCEPT ![c] = "failed"]
               /\ error' = [error EXCEPT ![c] =
                               Append(@, "Failed to download video: " \o ans.statusText)]
               /\ UNCHANGED <<artifact, fetched>>
    /\ endedAt' = [endedAt EXCEPT ![c] = now]
    /\ UNCHANGED <<config, calls, now, abortController, aborted, entry, onProgress,
                   issuedAt, startTime, attempts, operationName, last, lastOk, subs,
                   subResps, polls, fetches, cbs, calledAt, cycleAt, cancelAt,
                   lastResp, answeredAt, enteredAt>>
    /\ UNCHANGED serverVars

\* variant: cancel() also forgets the job handles of the running loops
Cancel_DropsHandle ==
    /\ aborted' = IF abortController # 0 THEN aborted \cup {abortController} ELSE aborted
    /\ cancelAt' = [c \in Calls |->
                      IF c \in calls /\ InLoop(c) /\ cancelAt[c] = -1 THEN now ELSE cancelAt[c]]
    /\ operationName' = [c \in Calls |-> IF c \in calls /\ InLoop(c) THEN "" ELSE operationName[c]]
    /\ UNCHANGED <<config, calls, now, abortController, pc, entry, onProgress, issuedAt,
                   startTime, attempts, last, lastOk, artifact, error,
                   subs, subResps, polls, fetches, cbs, calledAt, cycleAt, endedAt,
                   fetched, lastResp, answeredAt, enteredAt>>
    /\ UNCHANGED serverVars

\* cancel(): this.abortController?.abort()
Cancel ==
    /\ aborted' = IF abortController # 0 THEN aborted \cup {abortController} ELSE aborted
    /\ cancelAt' = [c \in Calls |->
                      IF c \in calls /\ InLoop(c) /\ cancelAt[c] = -1 THEN now ELSE cancelAt[c]]
    /\ UNCHANGED <<config, calls, now, abortController, pc, entry, onProgress, issuedAt,
                   startTime, attempts, operationName, last, lastOk, artifact, error,
                   subs, subResps, polls, fetches, cbs, calledAt, cycleAt, endedAt,
                   fetched, lastResp, answeredAt, enteredAt>>
    /\ UNCHANGED serverVars

\* the latest time at which the pending await of call c completes
Deadline(c) == IF pc[c] = "waiting" THEN issuedAt[c] + PollingInterval + MaxTimerLate
               ELSE issuedAt[c] + MaxLatency

\* time passes while some call is suspended and none is overdue
Tick ==
    /\ now < MaxTime
    /\ \E c \in calls : Pending(c)
    /\ \A c \in calls : Pending(c) => now < Deadline(c)
    /\ now' = now + 1
    /\ UNCHANGED <<config, calls, abortController, aborted, pc, entry, onProgress,
                   issuedAt, startTime, attempts, operationName, last, lastOk, artifact,
                   error, subs, subResps, polls, fetches, cbs, calledAt, cycleAt,
                   endedAt, cancelAt,
                   fetched, lastResp, answeredAt, enteredAt>>
    /\ UNCHANGED serverVars

Next ==
    \/ \E c \in Calls, cb \in BOOLEAN : Generate(c, cb)
    \/ \E c \in Calls, cb \in BOOLEAN : PollForCompletion(c, cb)
    \/ \E c \in Calls, ans \in SubmitAnswers : SubmitReturn(c, ans)
    \/ \E c \in Calls, resp \in Responses : PollReturn(c, resp)
    \/ \E c \in Calls : Wake(c)
    \/ \E c \in Calls, ans \in FetchAnswers : FetchReturn(c, ans)
    \/ Cancel
    \/ Tick

Spec == Init /\ [][Next]_vars

\* ---- scheduling -------------------------------------------------------------
\* every pending request is answered, every timer fires, and time advances
Fairness ==
    /\ WF_vars(Tick)
    /\ \A c \in Calls :
        /\ WF_vars(\E ans \in SubmitAnswers : SubmitReturn(c, ans))
        /\ WF_vars(\E resp \in Responses : PollReturn(c, resp))
        /\ WF_vars(Wake(c))
        /\ WF_vars(\E ans \in FetchAnswers : FetchReturn(c, ans))

\* one call on an instance configured to download the video
InitFair ==
    /\ InitCommon
    /\ calls = {1}
    /\ config = [retryOnOverload |-> FALSE, fallbackModels |-> FallbackChain,
                 outputFormat |-> "blob"]

SpecFair == InitFair /\ [][Next]_vars /\ Fairness

\* ---- two pollForCompletion calls on one instance ---------------------------
\* both call slots are used, with the configuration of the status route
InitConc ==
    /\ InitCommon
    /\ calls = {1, 2}
    /\ config = [retryOnOverload |-> FALSE, fallbackModels |-> FallbackChain,
                 outputFormat |-> "url"]

\* the answers a status poll gets here: running, finished with a video, HTTP error
ConcResponses ==
    {[ok |-> TRUE, err |-> "absent", done |-> FALSE, uri1 |-> "", uri2 |-> ""],
     [ok |-> TRUE, err |-> "absent", done |-> TRUE, uri1 |-> RestUri, uri2 |-> ""],
     HttpError}

NextConc ==
    \/ \E c \in Calls : PollForCompletion(c, FALSE)
    \/ \E c \in Calls, resp \in ConcResponses : PollReturn(c, resp)
    \/ \E c \in Calls : Wake(c)
    \/ Cancel
    \/ Tick

SpecConc == InitConc /\ [][NextConc]_vars

\* ---- two calls on one instance, one after the other --------------------------
InitSeq ==
    /\ InitCommon
    /\ calls = {1, 2}
    /\ config = [retryOnOverload |-> FALSE, fallbackModels |-> FallbackChain,
                 outputFormat |-> "url"]

\* a call is made once the calls before it have returned or raised
MayStart(c) == \A d \in calls : d < c => Ended(d)

NextSeq ==
    \/ \E c \in Calls : MayStart(c) /\ Generate(c, FALSE)
    \/ \E c \in Calls : MayStart(c) /\ PollForCompletion(c, FALSE)
    \/ \E c \in Calls, ans \in SubmitAnswers : SubmitReturn(c, ans)
    \/ \E c \in Calls, resp \in ConcResponses : PollReturn(c, resp)
    \/ \E c \in Calls : Wake(c)
    \/ Cancel
    \/ Tick

SpecSeq == InitSeq /\ [][NextSeq]_vars

\* ---- getCachedOrFetchHolidayDetails ------------------------------------------
DetailFetchesPending ==
    LET RECURSIVE Sum(_)
        Sum(S) == IF S = {} THEN 0
                  ELSE LET k == CHOOSE k \in S : TRUE IN Len(detailFetches[k]) + Sum(S \ {k})
    IN Sum(HolidayKeys)

\* variant: an entry exactly CACHE_TTL old still counts as valid
GetCachedOrFetchHolidayDetails_Inclusive(k) ==
    LET i == CacheIndex(holidayDetailsCache, k) IN
    /\ IF i # 0 /\ now - holidayDetailsCache[i].timestamp <= CACHE_TTL
          THEN /\ lookup' = [key |-> k, served |-> "cache"]
               /\ UNCHANGED <<holidayDetailsCache, detailFetches>>
       ELSE IF k \in ServiceKeys
          THEN /\ holidayDetailsCache' = CacheStore(holidayDetailsCache, k, "service", now)
               /\ lookup' = [key |-> k, served |-> "service"]
               /\ UNCHANGED detailFetches
       ELSE /\ DetailFetchesPending < MaxDetailFetches
            /\ detailFetches' = [detailFetches EXCEPT ![k] = Append(@, now)]
            /\ lookup' = [key |-> k, served |-> "awaiting"]
            /\ UNCHANGED holidayDetailsCache
    /\ UNCHANGED <<now, generatorVars, clientVars, adminVars, serviceVars>>

\* getCachedOrFetchHolidayDetails(k) up to its return or its await: a valid
\* entry is returned; else the holiday service's details are cached and
\* returned; else fetchHolidayDetails is awaited
GetCachedOrFetchHolidayDetails(k) ==
    LET i == CacheIndex(holidayDetailsCache, k) IN
    /\ IF i # 0 /\ now - holidayDetailsCache[i].timestamp < CACHE_TTL
          THEN /\ lookup' = [key |-> k, served |-> "cache"]
               /\ UNCHANGED <<holidayDetailsCache, detailFetches>>
       ELSE IF k \in ServiceKeys
          THEN /\ holidayDetailsCache' = CacheStore(holidayDetailsCache, k, "service", now)
               /\ lookup' = [key |-> k, served |-> "service"]
               /\ UNCHANGED detailFetches
       ELSE /\ DetailFetchesPending < MaxDetailFetches
            /\ detailFetches' = [detailFetches EXCEPT ![k] = Append(@, now)]
            /\ lookup' = [key |-> k, served |-> "awaiting"]
            /\ UNCHANGED holidayDetailsCache
    /\ UNCHANGED <<now, generatorVars, clientVars, adminVars, serviceVars>>

\* a sequence without its i-th element
RemoveAt(s, i) == SubSeq(s, 1, i - 1) \o SubSeq(s, i + 1, Len(s))

\* the calls for key k whose request to Gemini has had time to be answered
Answerable(k) == {i \in DOMAIN detailFetches[k] : detailFetches[k][i] < now}

\* fetchHolidayDetails resolves: evict, store, return
DetailsFetched(k) ==
    /\ \E i \in Answerable(k) : detailFetches' = [detailFetches EXCEPT ![k] = RemoveAt(@, i)]
    /\ holidayDetailsCache' = CacheStore(holidayDetailsCache, k, "gemini", now)
    /\ lookup' = [key |-> k, served |-> "gemini"]
    /\ UNCHANGED <<now, generatorVars, clientVars, adminVars, serviceVars>>

\* fetchHolidayDetails throws: the call raises, nothing is stored
DetailsFailed(k) ==
    /\ \E i \in Answerable(k) : detailFetches' = [detailFetches EXCEPT ![k] = RemoveAt(@, i)]
    /\ lookup' = [key |-> k, served |-> "error"]
    /\ UNCHANGED <<now, generatorVars, clientVars, adminVars, serviceVars, holidayDetailsCache>>

\* clearHolidayDetailsCache()
ClearHolidayDetailsCache ==
    /\ holidayDetailsCache # <<>>
    /\ holidayDetailsCache' = <<>>
    /\ UNCHANGED <<now, generatorVars, clientVars, adminVars, serviceVars, detailFetches, lookup>>

\* Date.now() moves on
CacheTick ==
    /\ now < MaxCacheTime
    /\ now' = now + 1
    /\ UNCHANGED <<generatorVars, cacheVars, adminVars, serviceVars, clientVars>>

\* the server module with no generator call running
InitCache ==
    /\ InitCommon
    /\ calls = {}
    /\ config = [retryOnOverload |-> FALSE, fallbackModels |-> FallbackChain,
                 outputFormat |-> "url"]

NextCache ==
    \/ \E k \in HolidayKeys : GetCachedOrFetchHolidayDetails(k)
    \/ \E k \in HolidayKeys : DetailsFetched(k)
    \/ \E k \in HolidayKeys : DetailsFailed(k)
    \/ ClearHolidayDetailsCache
    \/ CacheTick

SpecCache == InitCache /\ [][NextCache]_vars

\* ---- POST refresh-holidays ---------------------------------------------------
\* String.replace('Bearer ', ''): the first occurrence is removed
RECURSIVE ReplaceFirst(_, _)
ReplaceFirst(str, piece) ==
    IF str = <<>> THEN <<>>
    ELSE IF Head(str) = piece THEN Tail(str)
    ELSE <<Head(str)>> \o ReplaceFirst(Tail(str), piece)

\* a || b on strings and null
OrElse(a, b) == IF a # Null /\ a # Empty THEN a ELSE b

\* authHeader?.replace('Bearer ', '') || urlSecret
ProvidedSecret(req) ==
    OrElse(IF req.header = Null THEN Null ELSE ReplaceFirst(req.header, Bearer), req.secret)

\* variant: the comparison is made only when the request provides a secret
AdminChecks_OnlyIfProvided(req) ==
    IF adminSecret = Null \/ adminSecret = Empty THEN 500
    ELSE IF ProvidedSecret(req) \notin {Null, Empty} /\ ProvidedSecret(req) # adminSecret THEN 401
    ELSE IF ~geminiKey THEN 500
    ELSE 0

\* the answer of the handler's checks before it starts fetching, 0 = passed
AdminChecks(req) ==
    IF adminSecret = Null \/ adminSecret = Empty THEN 500
    ELSE IF ProvidedSecret(req) # adminSecret THEN 401
    ELSE IF ~geminiKey THEN 500
    ELSE 0

\* what the file system does to the backup copy and the write
FsOutcomes == {"ok", "copy fails", "write fails", "write fails midway"}

\* variant: the backup copy is taken after the new data has been written
Finish_BackupAfterWrite(r, fs) ==
    LET db == Db(r, database[r])
        exists == dataFile # Absent
    IN
    /\ rpc' = [rpc EXCEPT ![r] = "done"]
    /\ IF database[r] = {}
          THEN /\ reply' = [reply EXCEPT ![r] = 500]
               /\ UNCHANGED <<dataFile, backupFile, holidayData, serviceCall>>
       ELSE IF fs \in {"write fails", "write fails midway"}
          THEN /\ reply' = [reply EXCEPT ![r] = 500]
               /\ dataFile' = IF fs = "write fails" THEN dataFile ELSE Partial(r)
               /\ UNCHANGED <<backupFile, holidayData, serviceCall>>
       ELSE IF exists /\ fs = "copy fails"
          THEN /\ reply' = [reply EXCEPT ![r] = 500]
               /\ dataFile' = db
               /\ UNCHANGED <<backupFile, holidayData, serviceCall>>
       ELSE /\ reply' = [reply EXCEPT ![r] = 200]
            /\ dataFile' = db
            /\ backupFile' = db
            /\ holidayData' = LoadData(db)
            /\ serviceCall' = Reloaded(db)

\* the handler from the end of the country loop to its answer: nothing
\* fetched is an error; else backup, write, reload (loadData has no await)
Finish(r, fs) ==
    LET db == Db(r, database[r])
        exists == dataFile # Absent
    IN
    /\ rpc' = [rpc EXCEPT ![r] = "done"]
    /\ IF database[r] = {}
          THEN /\ reply' = [reply EXCEPT ![r] = 500]
               /\ UNCHANGED <<dataFile, backupFile, holidayData, serviceCall>>
       ELSE IF exists /\ fs = "copy fails"
          THEN /\ reply' = [reply EXCEPT ![r] = 500]
               /\ UNCHANGED <<dataFile, backupFile, holidayData, serviceCall>>
       ELSE IF fs \in {"write fails", "write fails midway"}
          THEN /\ reply' = [reply EXCEPT ![r] = 500]
               /\ backupFile' = IF exists THEN dataFile ELSE backupFile
               /\ dataFile' = IF fs = "write fails" THEN dataFile ELSE Partial(r)
               /\ UNCHANGED <<holidayData, serviceCall>>
       ELSE /\ reply' = [reply EXCEPT ![r] = 200]
            /\ backupFile' = IF exists THEN dataFile ELSE backupFile
            /\ dataFile' = db
            /\ holidayData' = LoadData(db)
            /\ serviceCall' = Reloaded(db)

\* the for loop moves on: the next country's fetch, or the end of the loop
NextCountry(r, fs) ==
    IF countryIdx[r] < Len(SUPPORTED_COUNTRIES)
        THEN /\ countryIdx' = [countryIdx EXCEPT ![r] = @ + 1]
             /\ rpc' = [rpc EXCEPT ![r] = "fetching"]
             /\ UNCHANGED <<dataFile, backupFile, holidayData, reply, serviceCall>>
    ELSE Finish(r, fs) /\ UNCHANGED countryIdx

\* POST arrives: the checks, then the first country's fetch is awaited
AdminPost(r, req) ==
    /\ rpc[r] = "idle"
    /\ request' = [request EXCEPT ![r] = req]
    /\ IF AdminChecks(req) # 0
          THEN /\ rpc' = [rpc EXCEPT ![r] = "done"]
               /\ reply' = [reply EXCEPT ![r] = AdminChecks(req)]
               /\ UNCHANGED countryIdx
       ELSE /\ rpc' = [rpc EXCEPT ![r] = "fetching"]
            /\ countryIdx' = [countryIdx EXCEPT ![r] = 1]
            /\ UNCHANGED reply
    /\ UNCHANGED <<adminSecret, geminiKey, dataFile, backupFile, holidayData, database>>
    /\ UNCHANGED <<now, generatorVars, clientVars, cacheVars, serviceVars>>

\* fetchCountryHolidays resolves: the country is stored and the 2 s delay awaited
CountryFetched(r) ==
    /\ rpc[r] = "fetching"
    /\ database' = [database EXCEPT ![r] = @ \cup {SUPPORTED_COUNTRIES[countryIdx[r]]}]
    /\ rpc' = [rpc EXCEPT ![r] = "delay"]
    /\ UNCHANGED <<adminSecret, geminiKey, dataFile, backupFile, holidayData, request,
                   countryIdx, reply>>
    /\ UNCHANGED <<now, generatorVars, clientVars, cacheVars, serviceVars>>

\* fetchCountryHolidays throws: the error is noted and the loop moves on
CountryFailed(r, fs) ==
    /\ rpc[r] = "fetching"
    /\ NextCountry(r, fs)
    /\ UNCHANGED <<adminSecret, geminiKey, request, database, initialized, initPc>>
    /\ UNCHANGED <<now, generatorVars, clientVars, cacheVars>>

\* the delay after a fetched country is over
DelayDone(r, fs) ==
    /\ rpc[r] = "delay"
    /\ NextCountry(r, fs)
    /\ UNCHANGED <<adminSecret, geminiKey, request, database, initialized, initPc>>
    /\ UNCHANGED <<now, generatorVars, clientVars, cacheVars>>

\* the route on any deployment, with no generator call running
InitAdmin ==
    /\ InitGenerator
    /\ calls = {}
    /\ config = [retryOnOverload |-> FALSE, fallbackModels |-> FallbackChain,
                 outputFormat |-> "url"]
    /\ CacheInit
    /\ ClientInit
    /\ adminSecret \in {Null, Empty, Secret}
    /\ geminiKey \in BOOLEAN
    /\ dataFile \in {Absent, Shipped}
    /\ RequestsInit

NextAdmin ==
    \/ \E r \in Requests, req \in RequestInputs : AdminPost(r, req)
    \/ \E r \in Requests : CountryFetched(r)
    \/ \E r \in Requests, fs \in FsOutcomes : CountryFailed(r, fs)
    \/ \E r \in Requests, fs \in FsOutcomes : DelayDone(r, fs)

SpecAdmin == InitAdmin /\ [][NextAdmin]_vars

\* ---- the holiday service -----------------------------------------------------
\* the states data/holidays.json is taken through
ServiceFiles == {Absent, Shipped, Partial(0), Db(0, {"USA"})}

\* getHolidays' null
NoHolidays == <<>>

\* getHolidays(country) on the loaded data: the country's holidays of that data
GetHolidays(data, country) ==
    IF data = Absent THEN NoHolidays
    ELSE IF country \notin data.countries THEN NoHolidays
    ELSE <<data.by, country>>

\* isReady()
IsReady == initialized /\ holidayData # Absent

\* how loadData() ends on a file
Loaded(file) == IF LoadThrows(file) THEN "threw"
                ELSE IF file = Absent THEN "missing" ELSE "loaded"

\* variant: initialize() without the `if (this.initialized) return`
Initialize_NoGuard ==
    /\ initPc = "idle"
    /\ holidayData' = LoadData(dataFile)
    /\ initPc' = Loaded(dataFile)
    /\ UNCHANGED <<initialized, serviceCall>>
    /\ UNCHANGED <<adminSecret, geminiKey, dataFile, backupFile, rpc, request, countryIdx,
                   database, reply>>
    /\ UNCHANGED <<now, generatorVars, clientVars, cacheVars>>

\* initialize() up to its return or to the await of loadData(), which has
\* run by then
Initialize ==
    /\ initPc = "idle"
    /\ IF initialized
          THEN /\ serviceCall' = Initialized(FALSE)
               /\ UNCHANGED <<holidayData, initPc>>
       ELSE /\ holidayData' = LoadData(dataFile)
            /\ initPc' = Loaded(dataFile)
            /\ UNCHANGED serviceCall
    /\ UNCHANGED initialized
    /\ UNCHANGED <<adminSecret, geminiKey, dataFile, backupFile, rpc, request, countryIdx,
                   database, reply>>
    /\ UNCHANGED <<now, generatorVars, clientVars, cacheVars>>

\* initialize() after the await: the flag is set, or cleared in the catch
InitializeResumes ==
    /\ initPc # "idle"
    /\ initialized' = (initPc # "threw")
    /\ serviceCall' = Initialized(initPc # "missing")
    /\ initPc' = "idle"
    /\ UNCHANGED <<adminVars, now, generatorVars, cacheVars, clientVars>>

\* variant: a load that throws keeps the data loaded before
Reload_KeepsData ==
    /\ holidayData' = IF LoadThrows(dataFile) THEN holidayData ELSE LoadData(dataFile)
    /\ serviceCall' = Reloaded(dataFile)
    /\ UNCHANGED <<initialized, initPc>>
    /\ UNCHANGED <<adminSecret, geminiKey, dataFile, backupFile, rpc, request, countryIdx,
                   database, reply>>
    /\ UNCHANGED <<now, generatorVars, clientVars, cacheVars>>

\* reload(): loadData() and nothing else
Reload ==
    /\ holidayData' = LoadData(dataFile)
    /\ serviceCall' = Reloaded(dataFile)
    /\ UNCHANGED <<initialized, initPc>>
    /\ UNCHANGED <<adminSecret, geminiKey, dataFile, backupFile, rpc, request, countryIdx,
                   database, reply>>
    /\ UNCHANGED <<now, generatorVars, clientVars, cacheVars>>

\* the data file is written, removed or damaged from outside the service
FileChanges(f) ==
    /\ f # dataFile
    /\ dataFile' = f
    /\ UNCHANGED <<adminSecret, geminiKey, backupFile, holidayData, rpc, request,
                   countryIdx, database, reply>>
    /\ UNCHANGED <<now, generatorVars, clientVars, cacheVars, serviceVars>>

\* the singleton right after construction, before any initialize()
InitService ==
    /\ InitGenerator
    /\ calls = {}
    /\ config = [retryOnOverload |-> FALSE, fallbackModels |-> FallbackChain,
                 outputFormat |-> "url"]
    /\ CacheInit
    /\ ClientInit
    /\ adminSecret = Secret
    /\ geminiKey = TRUE
    /\ dataFile \in ServiceFiles
    /\ backupFile = Absent
    /\ holidayData = Absent
    /\ rpc = [r \in Requests |-> "idle"]
    /\ request = [r \in Requests |-> NoRequest]
    /\ countryIdx = [r \in Requests |-> 0]
    /\ database = [r \in Requests |-> {}]
    /\ reply = [r \in Requests |-> 0]
    /\ initialized = FALSE
    /\ initPc = "idle"
    /\ serviceCall = NoCall

NextService ==
    \/ Initialize
    \/ InitializeResumes
    \/ Reload
    \/ \E f \in ServiceFiles : FileChanges(f)

SpecService == InitService /\ [][NextService]_vars

\* ---- the browser's generateVideo and the two routes it calls -------------------
\* maxPollingTime and pollingInterval of api-client (600000 and 5000 there)
maxPollingTime == MaxPollingTime
pollingInterval == PollingInterval
\* the longest the call can last: start, the budget, one more wait and request
ClientMaxTime == MaxLatency + maxPollingTime + pollingInterval + MaxTimerLate + MaxLatency

\* fetch() rejects: the request never got an answer
NetworkError == [accepted |-> FALSE, error |-> "network"]

\* POST generate-video/start with a complete body, by the provider's answer
\* to the last submission of startGeneration
StartRoute(key, ans) ==
    IF ~key THEN [success |-> FALSE, error |-> "Gemini API key not configured"]
    ELSE IF StartGeneration(ans).ok
        THEN [success |-> TRUE, data |-> [operationName |-> StartGeneration(ans).name]]
    ELSE [success |-> FALSE, error |-> StartGeneration(ans).error]

\* Buffer.from(arrayBuffer).toString('base64')
ToBase64(bytes) == Btoa(bytes)

\* POST generate-video/status, by the provider's answer to checkStatus and
\* by the answer to the download of the video
StatusRoute(name, key, resp, video) ==
    LET status == CheckStatus(resp) IN
    IF name = "" THEN [success |-> FALSE, error |-> "Operation name is required"]
    ELSE IF ~key THEN [success |-> FALSE, error |-> "Gemini API key not configured"]
    ELSE IF status.status = "failed"
        THEN [success |-> TRUE,
              data |-> [status |-> "failed",
                        error |-> IF Truthy(status, "error") THEN status.error
                                  ELSE "Video generation failed"]]
    ELSE IF status.status = "succeeded" /\ Truthy(status, "output")
        THEN IF ~video.ok
                THEN [success |-> FALSE,
                      error |-> "Failed to fetch video: " \o video.statusText]
             ELSE [success |-> TRUE,
                   data |-> [status |-> "succeeded", progress |-> 100,
                             videoUrl |-> ToBase64(video.bytes)]]
    ELSE [success |-> TRUE,
          data |-> [status |-> "processing",
                    progress |-> IF Has(status, "progress") /\ status.progress # 0
                                    THEN status.progress ELSE 50]]

\* the provider's answers and the downloads the status route is run on
ClientResponses ==
    {HttpError,
     [ok |-> TRUE, err |-> "absent", done |-> FALSE, uri1 |-> "", uri2 |-> ""],
     [ok |-> TRUE, err |-> "nomsg", done |-> FALSE, uri1 |-> "", uri2 |-> ""],
     [ok |-> TRUE, err |-> "absent", done |-> TRUE, uri1 |-> RestUri, uri2 |-> ""]}
ClientDownloads ==
    {[ok |-> TRUE, bytes |-> <<>>], [ok |-> TRUE, bytes |-> <<77>>],
     [ok |-> FALSE, statusText |-> "Not Found"]}

ClientEnded == cpc \in {"returned", "threw"}
ClientPending == cpc \in {"starting", "waiting", "checking"}

\* generateVideo(...) is called: the start request is sent
ClientGenerate(progress) ==
    /\ cpc = "idle"
    /\ cpc' = "starting"
    /\ cOnProgress' = progress
    /\ cIssuedAt' = now
    /\ UNCHANGED <<cStartTime, cPolls, cAnswers, cProgress, cError>>
    /\ UNCHANGED <<now, generatorVars, cacheVars, adminVars, serviceVars>>

\* the top of the while loop at time t: the 'timed out' error, the wait, or
\* (in the millisecond of startTime) the status request at once
LoopAgain(t, wait) ==
    IF ~(t - cStartTime' < maxPollingTime)
        THEN /\ cpc' = "threw"
             /\ cError' = <<"Video generation timed out">>
             /\ UNCHANGED <<cIssuedAt, cPolls>>
    ELSE IF wait
        THEN /\ cpc' = "waiting"
             /\ cIssuedAt' = t
             /\ UNCHANGED <<cPolls, cError>>
    ELSE /\ cpc' = "checking"
         /\ cIssuedAt' = t
         /\ cPolls' = cPolls + 1
         /\ UNCHANGED cError

\* the start request is answered: an error, or startTime is taken and the
\* loop entered; Date.now() > startTime may or may not hold a moment later
ClientStartReturn(ans) ==
    LET r == IF ans = NetworkError THEN [success |-> FALSE, error |-> "Failed to fetch"]
             ELSE StartRoute(geminiKey, ans)
    IN
    /\ cpc = "starting"
    /\ now <= cIssuedAt + MaxLatency
    /\ IF ~r.success \/ ~Has(r, "data")
          THEN /\ cpc' = "threw"
               /\ cError' = <<IF Truthy(r, "error") THEN r.error
                              ELSE "Failed to start video generation">>
               /\ UNCHANGED <<cStartTime, cIssuedAt, cPolls>>
       ELSE /\ cStartTime' = now
            /\ \E wait \in BOOLEAN : LoopAgain(now, wait)
    /\ UNCHANGED <<cOnProgress, cAnswers, cProgress>>
    /\ UNCHANGED <<now, generatorVars, cacheVars, adminVars, serviceVars>>

\* the setTimeout of pollingInterval fires: the status request is sent
ClientWake ==
    /\ cpc = "waiting"
    /\ now >= cIssuedAt + pollingInterval
    /\ cpc' = "checking"
    /\ cIssuedAt' = now
    /\ cPolls' = cPolls + 1
    /\ UNCHANGED <<cOnProgress, cStartTime, cAnswers, cProgress, cError>>
    /\ UNCHANGED <<now, generatorVars, cacheVars, adminVars, serviceVars>>

\* the status request is answered: error, progress callback, return, error,
\* or the next turn of the loop
ClientStatusReturn(resp, video) ==
    LET a == StatusRoute(Handle, geminiKey, resp, video) IN
    /\ cpc = "checking"
    /\ now <= cIssuedAt + MaxLatency
    /\ cAnswers' = Append(cAnswers, a)
    /\ UNCHANGED <<cOnProgress, cStartTime>>
    /\ IF ~a.success \/ ~Has(a, "data")
          THEN /\ cpc' = "threw"
               /\ cError' = <<IF Truthy(a, "error") THEN a.error
                              ELSE "Failed to check video status">>
               /\ UNCHANGED <<cIssuedAt, cPolls, cProgress>>
       ELSE /\ cProgress' = IF cOnProgress /\ Has(a.data, "progress")
                               THEN Append(cProgress, [value |-> a.data.progress,
                                                       status |-> a.data.status])
                            ELSE cProgress
            /\ IF a.data.status = "succeeded" /\ Truthy(a.data, "videoUrl")
                  THEN /\ cpc' = "returned"
                       /\ UNCHANGED <<cIssuedAt, cPolls, cError>>
               ELSE IF a.data.status = "failed"
                  THEN /\ cpc' = "threw"
                       /\ cError' = <<IF Truthy(a.data, "error") THEN a.data.error
                                      ELSE "Video generation failed">>
                       /\ UNCHANGED <<cIssuedAt, cPolls>>
               ELSE LoopAgain(now, TRUE)
    /\ UNCHANGED <<now, generatorVars, cacheVars, adminVars, serviceVars>>

\* time passes while the call is suspended and nothing is overdue
ClientTick ==
    /\ ClientPending
    /\ now < ClientMaxTime
    /\ now < cIssuedAt + (IF cpc = "waiting" THEN pollingInterval + MaxTimerLate
                          ELSE MaxLatency)
    /\ now' = now + 1
    /\ UNCHANGED <<generatorVars, cacheVars, adminVars, serviceVars, clientVars>>

\* a browser against a deployment, with or without the API key
InitClient ==
    /\ InitGenerator
    /\ calls = {}
    /\ config = [retryOnOverload |-> TRUE, fallbackModels |-> FallbackChain,
                 outputFormat |-> "url"]
    /\ CacheInit
    /\ ClientInit
    /\ adminSecret = Secret
    /\ geminiKey \in BOOLEAN
    /\ dataFile = Shipped
    /\ RequestsInit

NextClient ==
    \/ \E progress \in BOOLEAN : ClientGenerate(progress)
    \/ \E ans \in SubmitAnswers \cup {NetworkError} : ClientStartReturn(ans)
    \/ ClientWake
    \/ \E resp \in ClientResponses, video \in ClientDownloads : ClientStatusReturn(resp, video)
    \/ ClientTick

SpecClient == InitClient /\ [][NextClient]_vars

\* the fallback chain the configuration names: primary, then the fallbacks
Chain == <<PrimaryModel>> \o config.fallbackModels
Elapsed(c) == endedAt[c] - startTime[c]
OverloadAt(c, i) == i <= Len(subResps[c]) /\ ~subResps[c][i].accepted
                    /\ subResps[c][i].error = OverloadText

\* ---- C1 ---------------------------------------------------------------------
\* C1 (as claimed): once cancel() has been called during a running loop, the
\* loop issues no further status poll and has ended by the time one polling
\* interval has passed since the cancel() call.
C1_PromptCancel ==
    [][\A c \in calls : cancelAt[c] # -1 =>
          /\ polls'[c] = polls[c]
          /\ now' > cancelAt[c] + PollingInterval => Ended(c)']_vars

\* ---- C2 ---------------------------------------------------------------------
\* C2 (as claimed): a timeout is raised no earlier than maxPollingTime and no
\* later than maxPollingTime plus one polling interval after the loop started.
C2_TimeoutWithinInterval ==
    \A c \in calls : pc[c] = "timedout" =>
        /\ Elapsed(c) >= MaxPollingTime
        /\ Elapsed(c) <= MaxPollingTime + PollingInterval

\* C2 (amended): a timeout is raised no earlier than maxPollingTime; the cycle
\* that runs into it began before maxPollingTime, so the error comes less than
\* one whole cycle (the inter-poll wait with its timer lateness plus the
\* duration of the status poll) after maxPollingTime.
C2_TimeoutWithinCycle ==
    \A c \in calls : pc[c] = "timedout" =>
        /\ Elapsed(c) >= MaxPollingTime
        /\ cycleAt[c] - startTime[c] < MaxPollingTime
        /\ Elapsed(c) < MaxPollingTime + PollingInterval + MaxTimerLate + MaxLatency

C2_Witness ==
    \E c \in calls : /\ pc[c] = "timedout" /\ polls[c] >= 2
                     /\ Elapsed(c) > MaxPollingTime + PollingInterval

\* ---- C3 ---------------------------------------------------------------------
\* C3: a progress callback carries 100 only with a succeeded status; every
\* callback of a poll that did not succeed carries at most 95.
C3_NoEarlyCompletion ==
    \A c \in calls : \A i \in 1..Len(cbs[c]) :
        /\ cbs[c][i].progress = ProgressDone => cbs[c][i].status = "succeeded"
        /\ cbs[c][i].status # "succeeded" => cbs[c][i].progress <= ProgressCap

C3_Witness ==
    \E c \in calls :
        /\ Len(cbs[c]) >= 3
        /\ cbs[c][1].status = "processing"
        /\ cbs[c][Len(cbs[c])].progress = ProgressDone

\* ---- C4 ---------------------------------------------------------------------
\* C4 (as claimed): checkStatus reports succeeded only with a non-empty output
\* and failed only with a non-empty error message.
C4_StatusCarriesPayload ==
    \A c \in calls :
        /\ last[c].status = "succeeded" => Truthy(last[c], "output")
        /\ last[c].status = "failed" => Truthy(last[c], "error")

\* C4 (amended): succeeded always comes with a non-empty output; failed comes
\* with a non-empty error message except after a non-OK HTTP response, where
\* failed is reported with no error message at all.
C4_StatusCarriesPayloadUnlessHttpError ==
    \A c \in calls :
        /\ last[c].status = "succeeded" => Truthy(last[c], "output")
        /\ last[c].status = "failed" /\ lastOk[c] => Truthy(last[c], "error")
        /\ ~lastOk[c] => last[c] = [status |-> "failed"]

C4_Witness ==
    \E c \in calls : ~lastOk[c] /\ last[c].status = "failed" /\ ~Has(last[c], "error")

\* ---- C5 ---------------------------------------------------------------------
\* C5 (as claimed): with retryOnOverload and fallbacks [B, C], a generation
\* whose submission on A is answered with overload goes on to B, and after an
\* overload on B to C: when it ends it has submitted along the chain in order.
C5_FallbackInOrder ==
    \A c \in calls :
        (/\ Ended(c) /\ entry[c] = "generate"
         /\ config.retryOnOverload /\ config.fallbackModels = FallbackChain
         /\ OverloadAt(c, 1)) =>
            /\ Len(subs[c]) >= 2
            /\ subs[c][2] = Chain[2]
            /\ OverloadAt(c, 2) => Len(subs[c]) = 3 /\ subs[c][3] = Chain[3]

\* ---- C6 ---------------------------------------------------------------------
\* C6 (as claimed): with retryOnOverload and a chain of three models, a
\* generation that ends on an overloaded submission has made exactly three
\* submissions, one per model, each answered with overload.
C6_AllModelsExhausted ==
    \A c \in calls :
        (/\ pc[c] = "failed" /\ entry[c] = "generate"
         /\ config.retryOnOverload /\ config.fallbackModels = FallbackChain
         /\ OverloadAt(c, Len(subResps[c]))) =>
            /\ subs[c] = Chain
            /\ \A i \in 1..3 : OverloadAt(c, i)

\* ---- C7 ---------------------------------------------------------------------
\* C7: without retryOnOverload a call makes one submission at most, and an
\* overload answer to it ends the call at once with that error, no poll made.
C7_NoFallbackWhenDisabled ==
    \A c \in calls : ~config.retryOnOverload =>
        /\ Len(subs[c]) <= 1
        /\ OverloadAt(c, 1) =>
              /\ pc[c] = "failed" /\ error[c] = <<OverloadText>>
              /\ subs[c] = <<PrimaryModel>> /\ polls[c] = 0
              /\ endedAt[c] <= calledAt[c] + MaxLatency

C7_Witness ==
    \E c \in calls : /\ ~config.retryOnOverload /\ config.fallbackModels # <<>>
                     /\ OverloadAt(c, 1) /\ pc[c] = "failed"

\* ---- C8 ---------------------------------------------------------------------
\* a failure of the call that is not overload-class
NonOverloadFailure(c) ==
    \/ /\ subResps[c] # <<>>
       /\ pc[c] = "failed" /\ polls[c] = 0
       /\ ~OverloadAt(c, Len(subResps[c]))
    \/ /\ last[c].status \in {"failed", "canceled"}
       /\ ~(Has(last[c], "error") /\ last[c].error = OverloadText)

\* C8: after a failure that is not overload-class the call makes no further
\* submission and no further status poll.
C8_NoRetryAfterOtherFailure ==
    [][\A c \in calls : NonOverloadFailure(c) =>
          subs'[c] = subs[c] /\ polls'[c] = polls[c]]_vars

C8_Witness ==
    \E c \in calls : /\ config.retryOnOverload /\ config.fallbackModels # <<>>
                     /\ pc[c] = "failed" /\ polls[c] >= 2
                     /\ last[c] = [status |-> "failed", error |-> "No video URL in response"]

\* ---- C9 ---------------------------------------------------------------------
\* C9: a call that has ended has either returned one artifact or raised one
\* error, never both and never neither; a call that has not ended has neither;
\* after the outcome nothing more happens for the call.
C9_ExactlyOneOutcome ==
    /\ [](\A c \in calls :
            /\ Ended(c) => Len(artifact[c]) + Len(error[c]) = 1
            /\ pc[c] = "returned" <=> artifact[c] # <<>>
            /\ ~Ended(c) => artifact[c] = <<>> /\ error[c] = <<>>)
    /\ [][\A c \in calls : Ended(c) =>
            /\ pc'[c] = pc[c] /\ artifact'[c] = artifact[c] /\ error'[c] = error[c]
            /\ polls'[c] = polls[c] /\ cbs'[c] = cbs[c] /\ fetches'[c] = fetches[c]]_vars

C9_Witness ==
    \E c \in calls : /\ pc[c] = "returned" /\ polls[c] >= 2 /\ fetches[c] = 1
                     /\ artifact[c] # <<>> /\ error[c] = <<>>

\* ---- C10 --------------------------------------------------------------------
\* C10: past the submission a call either holds a non-empty job handle or has
\* failed with the submission's error without polling; an accepted answer
\* that carries no operation name makes startGeneration raise.
C10_HandleOrError ==
    \A c \in calls : (entry[c] = "generate" /\ subResps[c] # <<>>) =>
        LET ans == subResps[c][Len(subResps[c])] IN
        /\ operationName[c] # "" \/ (pc[c] = "failed" /\ polls[c] = 0 /\ error[c] # <<>>)
        /\ polls[c] > 0 => operationName[c] # ""
        /\ (ans.accepted /\ ans.name = "") =>
              /\ pc[c] = "failed" /\ polls[c] = 0 /\ operationName[c] = ""
              /\ error[c] = <<"No operation name returned from Gemini">>

C10_Witness ==
    \E c \in calls : /\ subResps[c] = <<[accepted |-> TRUE, name |-> ""]>>
                     /\ pc[c] = "failed"

\* ---- C11 --------------------------------------------------------------------
\* C11: once a succeeded status has been observed the artifact has been
\* fetched not at all for 'url' and exactly once for 'base64' and 'blob'; no
\* fetch is ever issued without a succeeded status.
C11_FetchCount ==
    \A c \in calls :
        /\ fetches[c] > 0 => last[c].status = "succeeded"
        /\ last[c].status = "succeeded" =>
              fetches[c] = (IF config.outputFormat = "url" THEN 0 ELSE 1)
        /\ last[c].status # "succeeded" => fetches[c] = 0

C11_Witness ==
    \E c \in calls : /\ pc[c] = "returned" /\ config.outputFormat = "blob"
                     /\ fetches[c] = 1 /\ polls[c] >= 2

\* ---- C12 --------------------------------------------------------------------
\* base64 decoding (atob): groups of four characters of the alphabet, '='
\* padding in the last group only; anything else is an InvalidCharacterError
InvalidCharacterError == <<-1>>
IsB64(ch) == \E n \in 0..63 : B64Alphabet[n + 1] = ch
B64Value(ch) == CHOOSE n \in 0..63 : B64Alphabet[n + 1] = ch

RECURSIVE ValidBase64(_)
ValidBase64(t) ==
    \/ Len(t) = 0
    \/ /\ Len(t) >= 4 /\ IsB64(t[1]) /\ IsB64(t[2])
       /\ \/ IsB64(t[3]) /\ IsB64(t[4]) /\ ValidBase64(SubSeq(t, 5, Len(t)))
          \/ Len(t) = 4 /\ IsB64(t[3]) /\ t[4] = "=" /\ B64Value(t[3]) % 4 = 0
          \/ Len(t) = 4 /\ t[3] = "=" /\ t[4] = "=" /\ B64Value(t[2]) % 16 = 0

RECURSIVE DecodeGroups(_)
DecodeGroups(t) ==
    IF Len(t) = 0 THEN <<>>
    ELSE LET a == B64Value(t[1])
             b == B64Value(t[2])
         IN IF t[3] = "=" THEN <<a * 4 + b \div 16>>
            ELSE LET c == B64Value(t[3]) IN
                 IF t[4] = "=" THEN <<a * 4 + b \div 16, (b % 16) * 16 + c \div 4>>
                 ELSE <<a * 4 + b \div 16, (b % 16) * 16 + c \div 4,
                        (c % 4) * 64 + B64Value(t[4])>>
                          \o DecodeGroups(SubSeq(t, 5, Len(t)))

Base64Decode(t) == IF ValidBase64(t) THEN DecodeGroups(t) ELSE InvalidCharacterError

\* C12 (as claimed): with 'base64' the returned string base64-decodes to the
\* bytes the download delivered.
C12_RoundTrip ==
    \A c \in calls : (config.outputFormat = "base64" /\ pc[c] = "returned") =>
        Base64Decode(artifact[c][1]) = fetched[c][1]

\* C12 (amended): with 'base64' the returned string is the data URI
\* 'data:video/mp4;base64,' followed by a payload, and that payload
\* base64-decodes to the bytes the download delivered.
C12_DataUriRoundTrip ==
    \A c \in calls : (config.outputFormat = "base64" /\ pc[c] = "returned") =>
        LET r == artifact[c][1] IN
        /\ Len(r) >= Len(DataUriPrefix)
        /\ SubSeq(r, 1, Len(DataUriPrefix)) = DataUriPrefix
        /\ Base64Decode(SubSeq(r, Len(DataUriPrefix) + 1, Len(r))) = fetched[c][1]

C12_Witness ==
    \E c \in calls : /\ config.outputFormat = "base64" /\ pc[c] = "returned"
                     /\ fetched[c] = <<<<77, 255>>>>

\* ---- C13 --------------------------------------------------------------------
\* the polls of call c that have been answered
Answered(c) == IF pc[c] = "polling" THEN polls[c] - 1 ELSE polls[c]

\* C13 (as claimed): when the N-th poll is the first to report succeeded, the
\* caller has received exactly N callbacks, the last with progress 100.
C13_OneCallbackPerPoll ==
    \A c \in calls : (onProgress[c] /\ last[c].status = "succeeded") =>
        /\ Len(cbs[c]) = polls[c]
        /\ cbs[c][Len(cbs[c])].progress = ProgressDone

\* C13 (amended): every answered poll is followed by one callback and the
\* succeeded poll by a second one: after N - 1 processing polls and a
\* succeeded N-th poll the caller has received N + 1 callbacks, the last two
\* both for the N-th poll, the first of them with the estimate (at most 95)
\* and the last with progress 100.
C13_CallbacksPerPoll ==
    \A c \in calls : onProgress[c] =>
        IF last[c].status = "succeeded"
        THEN LET n == Len(cbs[c]) IN
             /\ n = polls[c] + 1
             /\ \A i \in 1..(n - 2) : cbs[c][i].status = "processing"
             /\ cbs[c][n - 1].status = "succeeded" /\ cbs[c][n - 1].progress <= ProgressCap
             /\ cbs[c][n].status = "succeeded" /\ cbs[c][n].progress = ProgressDone
             /\ cbs[c][n].output = cbs[c][n - 1].output
        ELSE Len(cbs[c]) = Answered(c)

C13_Witness ==
    \E c \in calls : /\ onProgress[c] /\ pc[c] = "returned"
                     /\ polls[c] = 3 /\ Len(cbs[c]) = 4
                     /\ cbs[c][2].status = "processing"

\* ---- C14 --------------------------------------------------------------------
\* C14 (as claimed): a loop that was running when cancel() was called is
\* cancelled at its next cancellation check, whatever is started on the
\* instance in between: it never passes that check into another wait.
C14_CancelReachesRunningLoops ==
    [][\A c \in calls : cancelAt[c] # -1 =>
          ~(pc[c] # "waiting" /\ pc'[c] = "waiting")]_vars

\* ---- C15 --------------------------------------------------------------------
\* C15 (as claimed): the abort signal a running loop checks is the one it
\* created at its start, whatever else is started on the instance.
C15_OwnSignal ==
    \A c \in calls : InLoop(c) => abortController = c

\* ---- C16 --------------------------------------------------------------------
\* C16: a status poll is issued only while no poll of the call is in flight;
\* the first one in the turn pollForCompletion is entered, every later one
\* no sooner than pollingInterval after the previous poll was answered.
C16_SequentialPolls ==
    [][\A c \in calls : polls'[c] # polls[c] =>
          /\ polls'[c] = polls[c] + 1
          /\ pc[c] # "polling" /\ pc'[c] = "polling"
          /\ IF polls[c] = 0
                THEN now' = enteredAt'[c]
                ELSE now' >= answeredAt[c] + PollingInterval]_vars

C16_Witness ==
    \E c \in calls : /\ pc[c] = "polling" /\ polls[c] = 3
                     /\ issuedAt[c] = answeredAt[c] + PollingInterval

\* ---- C17 --------------------------------------------------------------------
\* the latest answer marks the operation done and names no video at any path
DoneWithoutVideo(c) ==
    /\ lastResp[c].ok /\ lastResp[c].err = "absent" /\ lastResp[c].done
    /\ lastResp[c].uri1 = "" /\ lastResp[c].uri2 = ""

\* C17: such an answer is reported as failed with an error message and ends
\* the call with that error: nothing is returned or fetched, the loop stops.
C17_DoneWithoutVideoFails ==
    \A c \in calls : DoneWithoutVideo(c) =>
        /\ last[c].status = "failed"
        /\ "error" \in DOMAIN last[c] /\ last[c].error # ""
        /\ pc[c] = "failed" /\ error[c] = <<last[c].error>>
        /\ artifact[c] = <<>> /\ fetches[c] = 0

C17_Witness ==
    \E c \in calls : DoneWithoutVideo(c) /\ polls[c] >= 2 /\ pc[c] = "failed"

IntervalsWithin == MaxPollingTime \div PollingInterval
IntervalsCovering == (MaxPollingTime + PollingInterval - 1) \div PollingInterval

\* C19 (as claimed): a call issues at most one status poll more than the
\* number of polling intervals that fit in maxPollingTime.
C19_PollsWithinFit ==
    \A c \in calls : polls[c] <= IntervalsWithin + 1

\* C19 (amended): when every request is answered and time advances, a call
\* that is in the loop (or fetching the video the loop found) eventually
\* returns or raises, and it issues at most one status poll more than the
\* number of polling intervals needed to cover maxPollingTime.
C19_Terminates ==
    /\ [](\A c \in calls : polls[c] <= IntervalsCovering + 1)
    /\ \A c \in Calls : (c \in calls /\ (InLoop(c) \/ pc[c] = "fetching")) ~> Ended(c)

C19_Witness ==
    \E c \in calls : /\ pc[c] = "timedout"
                     /\ polls[c] = IntervalsCovering + 1
                     /\ polls[c] > IntervalsWithin + 1

\* ---- C20 --------------------------------------------------------------------
DownloadErrors == {<<"Failed to download video: " \o t>> : t \in StatusTexts}

\* the download was issued and did not deliver the video
DownloadFailed(c) == fetches[c] > 0 /\ pc[c] \notin {"fetching", "returned"}

\* C20: a call whose video download was answered with a non-OK status has
\* raised exactly one error, which names the status text of the answer, has
\* returned nothing, and stays as it is: no further status poll, no further
\* download and no further submission follows.
C20_DownloadFailureIsFinal ==
    /\ [](\A c \in calls : DownloadFailed(c) =>
            /\ pc[c] = "failed"
            /\ error[c] \in DownloadErrors
            /\ artifact[c] = <<>>
            /\ fetches[c] = 1)
    /\ [][\A c \in calls : DownloadFailed(c) =>
            /\ pc'[c] = pc[c] /\ error'[c] = error[c]
            /\ polls'[c] = polls[c] /\ subs'[c] = subs[c]
            /\ fetches'[c] = fetches[c]]_vars

C20_Witness ==
    \E c \in calls : /\ DownloadFailed(c) /\ pc[c] = "failed"
                     /\ entry[c] = "generate" /\ config.retryOnOverload
                     /\ polls[c] > 1

\* ---- C21 --------------------------------------------------------------------
\* the video uri paths of an answer, in the order checkStatus probes them
ProbePaths(resp) == <<resp.uri1, resp.uri2>>
\* the first probed path that holds a non-empty value ("" when none does)
FirstNonEmpty(paths) ==
    IF \E i \in DOMAIN paths : paths[i] # ""
        THEN paths[CHOOSE i \in DOMAIN paths :
                      paths[i] # "" /\ \A j \in 1..(i - 1) : paths[j] = ""]
    ELSE ""

\* a finished operation without an error field was the last answer of the call
DoneAnswer(c) ==
    /\ last[c] # NoStatus
    /\ lastResp[c].ok /\ lastResp[c].err = "absent" /\ lastResp[c].done

\* C21: for a finished operation (every combination of the REST path and the
\* SDK path holding a uri or not) the output checkStatus reports is the uri of
\* the first non-empty path in the order REST, SDK, with the key appended;
\* it reports an output exactly when one of the paths is non-empty.
C21_FirstNonEmptyPath ==
    \A c \in calls : DoneAnswer(c) =>
        LET first == FirstNonEmpty(ProbePaths(lastResp[c])) IN
        /\ first # "" => /\ "output" \in DOMAIN last[c]
                         /\ last[c].output = first \o "&key=" \o ApiKey
        /\ first = "" => "output" \notin DOMAIN last[c]

C21_Witness ==
    \E c \in calls : /\ DoneAnswer(c)
                     /\ lastResp[c].uri1 = RestUri /\ lastResp[c].uri2 = SdkUri
                     /\ last[c].output = RestUri \o "&key=" \o ApiKey

\* ---- C22 --------------------------------------------------------------------
\* the call ended because a status poll reported failed or canceled
PollFailed(c) == pc[c] = "failed" /\ fetches[c] = 0 /\ polls[c] > 0

Delivered(cb) == [f \in DOMAIN cb \ {"progress"} |-> cb[f]]

\* C23: with a progress callback, at every moment each answered poll has
\* been reported: none is missing while a later poll is in flight or once
\* the call has ended, the most recent callback carries the status of the most
\* recent answer (also when that answer was a failure and the error has been
\* raised), and the estimates delivered never decrease.
C23_CallbackBeforeHandling ==
    \A c \in calls : onProgress[c] =>
        /\ Len(cbs[c]) >= Answered(c)
        /\ Answered(c) > 0 => Delivered(cbs[c][Len(cbs[c])]) = last[c]
        /\ (pc[c] = "failed" /\ fetches[c] = 0 /\ polls[c] > 0) =>
              /\ cbs[c][Len(cbs[c])].status \in {"failed", "canceled"}
              /\ Len(cbs[c]) = polls[c]
        /\ \A i, j \in DOMAIN cbs[c] : i < j => cbs[c][i].progress <= cbs[c][j].progress

C23_Witness ==
    \E c \in calls : /\ onProgress[c] /\ pc[c] = "failed" /\ fetches[c] = 0
                     /\ polls[c] = 2 /\ Len(cbs[c]) = 2
                     /\ cbs[c][1].status = "processing" /\ cbs[c][2].status = "failed"
                     /\ cbs[c][1].progress < cbs[c][2].progress

\* ---- C24 --------------------------------------------------------------------
\* C24: a step in which cancel() takes effect (a controller becomes aborted
\* or a running loop is cancelled for the first time) sets the abort flag of
\* the controller the instance holds at that moment and nothing else: no
\* submission, status poll or download is issued, the configuration, the
\* job handles, the controller field and every call's position stay as
\* they are, and time does not pass.
C24_CancelIsLocal ==
    [][(aborted' # aborted \/ cancelAt' # cancelAt) =>
          /\ aborted' = IF abortController = 0 THEN aborted
                        ELSE aborted \cup {abortController}
          /\ UNCHANGED <<subs, subResps, polls, fetches, fetched>>
          /\ UNCHANGED <<config, operationName, abortController, calls>>
          /\ UNCHANGED <<pc, issuedAt, last, lastResp, artifact, error, cbs, now>>]_vars

C24_Witness ==
    \E c \in calls : /\ cancelAt[c] = now /\ now > 0 /\ pc[c] = "polling"
                     /\ abortController \in aborted
                     /\ operationName[c] = Handle /\ polls[c] = 2

\* ---- C29 --------------------------------------------------------------------
\* the last answer of the call carried an error field
ErrorAnswer(c) == last[c] # NoStatus /\ lastResp[c].ok /\ lastResp[c].err # "absent"

\* C29: an answer with an error field is reported as failed, without an
\* output, whether or not it is marked done and names a video; the call
\* then fetches nothing and returns nothing.
C29_ErrorBeforeOutput ==
    \A c \in calls : ErrorAnswer(c) =>
        /\ last[c].status = "failed"
        /\ "output" \notin DOMAIN last[c]
        /\ pc[c] = "failed" /\ fetches[c] = 0 /\ artifact[c] = <<>>

C29_Witness ==
    \E c \in calls : /\ ErrorAnswer(c) /\ lastResp[c].done
                     /\ lastResp[c].uri1 = RestUri /\ lastResp[c].uri2 = SdkUri
                     /\ last[c].status = "failed"

\* ---- C30 --------------------------------------------------------------------
\* C30 (as claimed): a loop that was running when cancel() was called ends
\* with the cancellation error and without an artifact.
C30_CancelledNeverSucceeds ==
    \A c \in calls : (cancelAt[c] # -1 /\ Ended(c)) =>
        /\ pc[c] = "cancelled"
        /\ artifact[c] = <<>>
        /\ error[c] = <<CancelText>>

\* ---- C25 --------------------------------------------------------------------
\* C25 (as claimed): the holiday-details cache never holds more than
\* MAX_CACHE_SIZE entries.
C25_CacheBounded == Len(holidayDetailsCache) <= MAX_CACHE_SIZE

\* ---- C26 --------------------------------------------------------------------
CacheKeys(cache) == {cache[i].key : i \in DOMAIN cache}

\* C26 (as claimed): when the cache is at capacity and an entry with a new
\* key is inserted, exactly one entry leaves and it is one with the smallest
\* timestamp; a call served from the cache leaves every entry and its
\* timestamp as they are.
C26_OldestEvicted ==
    [][/\ \A k \in HolidayKeys :
            (/\ Len(holidayDetailsCache) = MAX_CACHE_SIZE
             /\ k \notin CacheKeys(holidayDetailsCache)
             /\ k \in CacheKeys(holidayDetailsCache')) =>
                \E i \in DOMAIN holidayDetailsCache :
                    /\ \A j \in DOMAIN holidayDetailsCache :
                          holidayDetailsCache[i].timestamp <= holidayDetailsCache[j].timestamp
                    /\ CacheKeys(holidayDetailsCache') =
                          (CacheKeys(holidayDetailsCache) \ {holidayDetailsCache[i].key})
                              \cup {k}
       /\ (lookup' # lookup /\ lookup'.served = "cache") =>
              holidayDetailsCache' = holidayDetailsCache]_vars

\* ---- C27 --------------------------------------------------------------------
\* the token of an authorization header: the header without its (first)
\* 'Bearer ' piece
HeaderToken(h) ==
    IF h = Null THEN Null
    ELSE IF \E i \in DOMAIN h : h[i] = Bearer
        THEN LET i == CHOOSE i \in DOMAIN h :
                        h[i] = Bearer /\ \A j \in 1..(i - 1) : h[j] # Bearer
             IN SubSeq(h, 1, i - 1) \o SubSeq(h, i + 1, Len(h))
    ELSE h
\* the secret a request presents: the header's token when it has a
\* non-empty one, else the secret parameter
Presented(req) ==
    IF HeaderToken(req.header) \notin {Null, Empty} THEN HeaderToken(req.header)
    ELSE req.secret
\* ADMIN_SECRET is unset (or empty), or the request presents something else
Unauthorized(req) == adminSecret \in {Null, Empty} \/ Presented(req) # adminSecret

\* C27: a refresh request that arrives while ADMIN_SECRET is unset, or that
\* presents a secret different from ADMIN_SECRET, is answered 401 or 500 at
\* once, fetches nothing, and leaves the data file, the backup and the
\* service's data as they are; while no other request has arrived these never
\* change.
C27_UnauthorizedChangesNothing ==
    /\ [](\A r \in Requests : (rpc[r] # "idle" /\ Unauthorized(request[r])) =>
            /\ rpc[r] = "done" /\ database[r] = {}
            /\ reply[r] = IF adminSecret \in {Null, Empty} THEN 500 ELSE 401)
    /\ [][(\A r \in Requests : rpc'[r] # "idle" => Unauthorized(request'[r])) =>
            UNCHANGED <<dataFile, backupFile, holidayData>>]_vars

C27_Witness ==
    \E r \in Requests : /\ reply[r] = 401
                        /\ request[r].header = <<Bearer, "guess">>
                        /\ request[r].secret = Secret
                        /\ adminSecret = Secret /\ geminiKey
                        /\ dataFile = Shipped /\ backupFile = Absent

\* ---- C28 --------------------------------------------------------------------
\* request r gives its answer in this step
Answers(r) == rpc[r] # "done" /\ rpc'[r] = "done"

EntersLoop(c) == pc[c] \in {"idle", "submitting"} /\ pc'[c] \in {"polling", "cancelled", "timedout"}

\* C31: whatever cancel() calls came before, a call that enters
\* pollForCompletion (directly, or from generate once the submission is
\* answered) holds a controller of its own that is not aborted and issues its
\* first status poll; and a call ends with the cancellation error only if
\* cancel() was called while its loop was running.
C31_FreshControllerAtEntry ==
    /\ [][\A c \in calls : EntersLoop(c) =>
            /\ abortController' = c /\ c \notin aborted'
            /\ pc'[c] = "polling" /\ polls'[c] = 1 /\ error'[c] = <<>>]_vars
    /\ [](\A c \in calls : pc[c] = "cancelled" => cancelAt[c] # -1)

C31_Witness ==
    /\ entry[2] = "generate" /\ pc[2] = "polling" /\ polls[2] = 1
    /\ 1 \in aborted /\ cancelAt[1] = -1 /\ cancelAt[2] = -1
    /\ abortController = 2 /\ 2 \notin aborted

\* ---- C32 --------------------------------------------------------------------
\* floor(elapsed / maxPollingTime * 100), capped at 95
Estimate(elapsed) ==
    LET percent == (elapsed * 100) \div MaxPollingTime
    IN IF percent > 95 THEN 95 ELSE percent

\* C32: the progress values one call delivers lie in 0..100 and never
\* decrease; the value 100 comes only as the last callback, with a succeeded
\* status, and every other value is at most 95; the estimate delivered for
\* the latest answer is floor(elapsed / maxPollingTime * 100) capped at 95,
\* with elapsed taken when the answer arrived; the status itself is passed
\* on unchanged next to it.
C32_ProgressValues ==
    \A c \in calls : onProgress[c] =>
        LET n == Len(cbs[c])
            e == IF n > 0 /\ cbs[c][n].progress = 100 THEN n - 1 ELSE n
        IN
        /\ \A i \in 1..n : cbs[c][i].progress \in 0..100
        /\ \A i \in 1..n : \A j \in 1..n : i < j => cbs[c][i].progress <= cbs[c][j].progress
        /\ \A i \in 1..n : IF cbs[c][i].progress = 100
                             THEN i = n /\ cbs[c][i].status = "succeeded"
                             ELSE cbs[c][i].progress <= 95
        /\ e > 0 =>
              /\ cbs[c][e].progress = Estimate(answeredAt[c] - startTime[c])
              /\ [f \in DOMAIN cbs[c][e] \ {"progress"} |-> cbs[c][e][f]] = last[c]

C32_Witness ==
    \E c \in calls : /\ onProgress[c] /\ Len(cbs[c]) = 4
                     /\ cbs[c][1].progress = 0
                     /\ cbs[c][2].progress = 66
                     /\ cbs[c][3].progress = 95
                     /\ cbs[c][4].progress = 100

\* ---- C33 --------------------------------------------------------------------
\* the entry of key k is present and younger than CACHE_TTL
Fresh(cache, k, t) ==
    \E i \in DOMAIN cache : cache[i].key = k /\ t - cache[i].timestamp < CACHE_TTL

\* C33: a call is served from the cache only when the entry's age is
\* strictly less than CACHE_TTL, and then the cache is left alone; a call
\* for an absent or expired key obtains the details afresh, from the holiday
\* service when it knows the key and from Gemini otherwise; details obtained
\* afresh are stored under the key with the time of storing; no key has two
\* entries.
C33_HitsYoungerThanTtl ==
    /\ [][LET k == lookup'.key IN
          /\ (lookup' # lookup /\ lookup'.served = "cache") =>
                /\ Fresh(holidayDetailsCache, k, now)
                /\ holidayDetailsCache' = holidayDetailsCache
          /\ (lookup' # lookup /\ lookup'.served = "awaiting") =>
                /\ ~Fresh(holidayDetailsCache, k, now)
                /\ k \notin ServiceKeys
                /\ holidayDetailsCache' = holidayDetailsCache
          /\ (holidayDetailsCache' # holidayDetailsCache /\ holidayDetailsCache' # <<>>) =>
                /\ lookup'.served \in {"service", "gemini"}
                /\ lookup'.served = "service" <=> k \in ServiceKeys
                /\ lookup'.served = "service" => ~Fresh(holidayDetailsCache, k, now)
                /\ \E i \in DOMAIN holidayDetailsCache' :
                      holidayDetailsCache'[i] =
                          [key |-> k, data |-> lookup'.served, timestamp |-> now]]_vars
    /\ [](\A i \in DOMAIN holidayDetailsCache : \A j \in DOMAIN holidayDetailsCache :
             holidayDetailsCache[i].key = holidayDetailsCache[j].key => i = j)

\* an entry one tick short of the TTL is served, next to an entry that was
\* replaced after it had expired
C33_Witness ==
    /\ lookup.served = "cache"
    /\ CACHE_TTL > 1
    /\ \E i \in DOMAIN holidayDetailsCache :
          /\ holidayDetailsCache[i].key = lookup.key
          /\ now - holidayDetailsCache[i].timestamp = CACHE_TTL - 1
    /\ \E j \in DOMAIN holidayDetailsCache :
          /\ holidayDetailsCache[j].key # lookup.key
          /\ holidayDetailsCache[j].timestamp >= CACHE_TTL

\* ---- C34 --------------------------------------------------------------------
\* C34 (as claimed): the calls for one key have at most one request to
\* fetchHolidayDetails under way between them, and a call whose fetch fails
\* leaves the cache as it was.
C34_OneFetchPerKey ==
    /\ [](\A k \in HolidayKeys : Len(detailFetches[k]) <= 1)
    /\ [][(lookup' # lookup /\ lookup'.served = "error") =>
             holidayDetailsCache' = holidayDetailsCache]_vars

\* ---- C35 --------------------------------------------------------------------
\* C35 (as claimed): whenever isReady() is false, getHolidays returns null
\* for every country.
C35_NotReadyNoHolidays ==
    ~IsReady => \A country \in {"USA", "Chile"} : GetHolidays(holidayData, country) = NoHolidays

\* ---- C36 --------------------------------------------------------------------
\* a step in which reload() ran on a file that cannot be read or parsed
FailedReload ==
    /\ serviceCall'.op = "reload" /\ serviceCall'.threw
    /\ LoadThrows(dataFile)
    /\ dataFile' = dataFile /\ initPc' = initPc /\ initialized' = initialized

\* C36 (as claimed): getHolidays returns the same results after a failed
\* reload as before it.
C36_FailedReloadKeepsData ==
    [][FailedReload => \A country \in {"USA", "Chile"} :
            GetHolidays(holidayData', country) = GetHolidays(holidayData, country)]_vars

\* C36 (amended): a reload() that fails discards the data loaded before:
\* getHolidays returns null for every country after it; the error reaches
\* the caller and the initialized flag stays as it was.
C36_FailedReloadDropsData ==
    [][FailedReload =>
          /\ \A country \in {"USA", "Chile"} : GetHolidays(holidayData', country) = NoHolidays
          /\ holidayData' = Absent]_vars

\* data was loaded, and a reload on a damaged file has thrown it away
C36_Witness ==
    /\ serviceCall = [op |-> "reload", read |-> TRUE, threw |-> TRUE]
    /\ initialized /\ holidayData = Absent /\ dataFile = Partial(0)

\* ---- C38 --------------------------------------------------------------------
\* C38: once initialize() has succeeded, a later initialize() starts no load,
\* reads no file and leaves holidayData and the flag as they are; an
\* initialize() whose load threw returns normally and leaves initialized
\* false.
C38_InitializeIdempotent ==
    /\ [][initialized =>
            /\ initialized' /\ initPc' = "idle"
            /\ (serviceCall' # serviceCall /\ serviceCall'.op = "initialize") =>
                  /\ ~serviceCall'.read /\ ~serviceCall'.threw
                  /\ holidayData' = holidayData]_vars
    /\ [][(initPc = "threw" /\ initPc' = "idle") =>
            /\ ~initialized'
            /\ serviceCall' = [op |-> "initialize", read |-> TRUE, threw |-> FALSE]]_vars

\* a second initialize() has returned early with the data of the first still
\* loaded although the file has gone since
C38_Witness ==
    /\ initialized /\ initPc = "idle"
    /\ serviceCall = [op |-> "initialize", read |-> FALSE, threw |-> FALSE]
    /\ holidayData = Shipped /\ dataFile = Absent

\* ---- C37 --------------------------------------------------------------------
\* an answer of the status route that the claim says ends the loop
Decisive(a) ==
    \/ ~a.success
    \/ ~Has(a, "data")
    \/ a.data.status \in {"succeeded", "failed"}

\* C37 (as claimed): status requests go out one at a time; the first
\* succeeded or failed status or unsuccessful answer ends the call, with no
\* status request and no onProgress call after it; otherwise the call ends
\* with the timeout error once maxPollingTime has elapsed; onProgress gets
\* 100 only with a succeeded status.
C37_ClientLoopStops ==
    /\ cPolls \in {Len(cAnswers), Len(cAnswers) + 1}
    /\ cPolls = Len(cAnswers) + 1 <=> cpc = "checking"
    /\ \A i \in DOMAIN cAnswers : Decisive(cAnswers[i]) =>
          /\ i = Len(cAnswers)
          /\ ClientEnded
          /\ cPolls = i
    /\ cError = <<"Video generation timed out">> =>
          /\ now - cStartTime >= maxPollingTime
          /\ \A i \in DOMAIN cAnswers : ~Decisive(cAnswers[i])
    /\ \A i \in DOMAIN cProgress :
          cProgress[i].value = 100 => cProgress[i].status = "succeeded"

TypeOK ==
    /\ now \in 0..MaxTime
    /\ abortController \in {0} \cup Calls
    /\ aborted \subseteq Calls
    /\ \A c \in Calls : polls[c] \in Nat /\ attempts[c] \in Nat

====
